---- MODULE Spec2Model ----
(***************************************************************************)
(* Conversation and approval synchronisation engine of CodexMonitor:       *)
(* the threadReducer store of src/hooks/useThreads.ts, the asynchronous    *)
(* user operations built on it (startThreadForWorkspace, sendUserMessage,  *)
(* handleApprovalDecision, setActiveThreadId) and the inbound event        *)
(* handlers that feed it.                                                  *)
(*                                                                         *)
(* Strings that the code inspects (message text, deltas) are sequences of  *)
(* one-character strings; ids are opaque strings.                          *)
(***************************************************************************)
EXTENDS Integers, Sequences, FiniteSets, TLC

\* ---------------------------------------------------------------- bounds
\* operations of the hook invoked in one behaviour
MaxCalls == 2
\* inbound events delivered in one behaviour
MaxEvents == 2
\* deltas of one item applied in a row when a claim replays the reducer
MaxDeltas == 2
\* effect runs of useAppServerEvents (listen calls) in one behaviour
MaxSubs == 2
\* actions given directly to the reducer in one behaviour
MaxDispatches == 3
\* Date.now() reads a value of 0..MaxClock; the wall clock is not monotonic, and
\* two reads within one millisecond agree
MaxClock == 1

\* checkForUpdates invocations in one behaviour
MaxChecks == 2
\* runs of the post-update effect of useUpdater in one behaviour
MaxEffectRuns == 3
\* the post-update fetch generation stops being advanced by dismissals here
MaxGeneration == 4

Clock == 0..MaxClock

CallIds == 1..MaxCalls

SubIds == 1..MaxSubs

\* ------------------------------------------------------- input universes
Workspaces == {"w1", "w2"}
ThreadIds == {"t1", "t2"}
ItemIds == {"i1"}
RequestIds == {7, 8}
Decisions == {"accept", "decline"}
\* delta payloads of item/agentMessage/delta events (never empty, see the adapter)
Deltas == {<<"a">>}
\* item.text of item/completed events: non-empty, and with the empty text
NonEmptyTexts == {<<"a">>}
CompletedTexts == NonEmptyTexts \cup {<< >>}
\* what the user can submit in the composer
UserTexts == {<<" ">>, <<"h", " ">>}
\* thread ids a thread/start response can carry; "" is a response without id
ResponseIds == ThreadIds \cup {""}

\* JavaScript null, and undefined (an absent key of a Record, an omitted argument):
\* the code reads both only through `??` and truthiness tests, which do not tell
\* them apart, so one value stands for both
Null == "null"

Undefined == Null

\* ----------------------------------------------------------------- state
VARIABLES
    state,            \* the ThreadState held by useReducer
    activeWorkspace,  \* id of the activeWorkspace prop, or Null
    calls,            \* the user operations started so far, by call id
    nEvents,          \* inbound events delivered so far
    debugEntries,     \* the debug sink: what App keeps of the records given to onDebug
    renderPending,    \* the owner of the sink has a state update waiting for a render
    stateNoSink,      \* the ThreadState of the same hook used without onDebug
    subs,             \* the listen calls of useAppServerEvents, one per effect run
    lastRun,          \* the latest inbound event and what the listen callback did with it
    nDispatches,      \* actions given directly to the reducer so far
    stage,            \* useUpdater: state.stage
    updateRef,        \* updateRef.current: the check whose Update is held, or nothing
    latestTimeoutRef, \* latestTimeoutRef.current: the timer it names, or nothing
    timers,           \* the 'latest' toast timers that window.setTimeout has pending
    checkPc,          \* the checkForUpdates invocations, by check id
    installPc,        \* where the downloadAndInstall / relaunch of startUpdate stands
    postUpdateNotice, \* the stage of the post-update notice, or Null
    postUpdateFetchGeneration,  \* postUpdateFetchGenerationRef.current
    pendingVersion,   \* the pending post-update version in localStorage, or Null
    effectPc,         \* the runs of the post-update effect, by run id
    fetchGeneration,  \* the `generation` each run of the effect closed over
    cancelled,        \* the `cancelled` flag of each run of the effect
    dismissedWhileLoading  \* dismissPostUpdateNotice was called with a fetch pending

\* the updater hook
updater == <<stage, updateRef, latestTimeoutRef, timers, checkPc, installPc,
             postUpdateNotice, postUpdateFetchGeneration, pendingVersion, effectPc,
             fetchGeneration, cancelled, dismissedWhileLoading>>

vars == <<state, activeWorkspace, calls, nEvents, debugEntries, renderPending,
          stateNoSink, subs, lastRun, nDispatches, updater>>

\* the debug sink and the render it asks for
sink == <<debugEntries, renderPending>>

\* the event feed adapter
adapter == <<subs, lastRun>>

\* ------------------------------------------------------------- helpers
\* a ?? b
Coalesce(a, b) == IF a = Null THEN b ELSE a

IsSpace(ch) == ch = " "

RECURSIVE TrimStart(_)
TrimStart(s) ==
    IF s # << >> /\ IsSpace(Head(s)) THEN TrimStart(Tail(s)) ELSE s

RECURSIVE TrimEnd(_)
TrimEnd(s) ==
    IF s # << >> /\ IsSpace(s[Len(s)]) THEN TrimEnd(SubSeq(s, 1, Len(s) - 1)) ELSE s

\* String.prototype.trim
Trim(s) == TrimEnd(TrimStart(s))

\* list.some(pred) / list.find(pred) by id
HasId(list, id) == \E k \in 1..Len(list) : list[k].id = id

FindIndex(list, id) == CHOOSE k \in 1..Len(list) :
    /\ list[k].id = id
    /\ \A j \in 1..(k - 1) : list[j].id # id

\* list.filter(pred)
RECURSIVE FilterOutRequest(_, _)
FilterOutRequest(list, requestId) ==
    IF list = << >> THEN << >>
    ELSE IF Head(list).request_id # requestId
         THEN <<Head(list)>> \o FilterOutRequest(Tail(list), requestId)
         ELSE FilterOutRequest(Tail(list), requestId)

\* ---------------------------------------------------------- threadReducer
initialState ==
    [ activeThreadIdByWorkspace |-> [w \in Workspaces |-> Undefined],
      messagesByThread |-> [t \in ThreadIds |-> << >>],
      threadsByWorkspace |-> [w \in Workspaces |-> << >>],
      approvals |-> << >> ]

ReduceSetActiveThreadIdIfUnset(s, a) ==
    [s EXCEPT !.activeThreadIdByWorkspace[a.workspaceId] = Coalesce(@, a.threadId)]

ReduceSetActiveThreadIdGlobal(s, a) ==
    [s EXCEPT !.activeThreadIdByWorkspace = [w \in Workspaces |-> a.threadId]]

ReduceSetActiveThreadId(s, a) ==
    [s EXCEPT !.activeThreadIdByWorkspace[a.workspaceId] = a.threadId]

\* `Agent ${n}`
ThreadName(n) == "Agent " \o ToString(n)

ReduceEnsureThreadNoCheck(s, a) ==
    LET list == s.threadsByWorkspace[a.workspaceId]
        thread == [id |-> a.threadId, name |-> ThreadName(Len(list) + 1)]
    IN  [s EXCEPT
            !.threadsByWorkspace[a.workspaceId] = Append(list, thread),
            !.activeThreadIdByWorkspace[a.workspaceId] =
                Coalesce(s.activeThreadIdByWorkspace[a.workspaceId], a.threadId)]

ReduceEnsureThreadSelecting(s, a) ==
    LET list == s.threadsByWorkspace[a.workspaceId]
        thread == [id |-> a.threadId, name |-> ThreadName(Len(list) + 1)]
    IN  IF HasId(list, a.threadId) THEN s
        ELSE [s EXCEPT
                !.threadsByWorkspace[a.workspaceId] = Append(list, thread),
                !.activeThreadIdByWorkspace[a.workspaceId] = a.threadId]

ReduceEnsureThreadPrepending(s, a) ==
    LET list == s.threadsByWorkspace[a.workspaceId]
        thread == [id |-> a.threadId, name |-> ThreadName(Len(list) + 1)]
    IN  IF HasId(list, a.threadId) THEN s
        ELSE [s EXCEPT
                !.threadsByWorkspace[a.workspaceId] = <<thread>> \o list,
                !.activeThreadIdByWorkspace[a.workspaceId] =
                    Coalesce(s.activeThreadIdByWorkspace[a.workspaceId], a.threadId)]

ReduceEnsureThreadCountingAll(s, a) ==
    LET list == s.threadsByWorkspace[a.workspaceId]
        count == Len(s.threadsByWorkspace["w1"]) + Len(s.threadsByWorkspace["w2"])
        thread == [id |-> a.threadId, name |-> ThreadName(count + 1)]
    IN  IF HasId(list, a.threadId) THEN s
        ELSE [s EXCEPT
                !.threadsByWorkspace[a.workspaceId] = Append(list, thread),
                !.activeThreadIdByWorkspace[a.workspaceId] =
                    Coalesce(s.activeThreadIdByWorkspace[a.workspaceId], a.threadId)]

ReduceEnsureThread(s, a) ==
    LET list == s.threadsByWorkspace[a.workspaceId]
        thread == [id |-> a.threadId, name |-> ThreadName(Len(list) + 1)]
    IN  IF HasId(list, a.threadId) THEN s
        ELSE [s EXCEPT
                !.threadsByWorkspace[a.workspaceId] = Append(list, thread),
                !.activeThreadIdByWorkspace[a.workspaceId] =
                    Coalesce(s.activeThreadIdByWorkspace[a.workspaceId], a.threadId)]

ReduceAddUserMessage(s, a) ==
    [s EXCEPT !.messagesByThread[a.threadId] = Append(@, a.message)]

ReduceAppendAgentDeltaPrepending(s, a) ==
    LET list == s.messagesByThread[a.threadId]
    IN  IF HasId(list, a.itemId)
        THEN [s EXCEPT !.messagesByThread[a.threadId][FindIndex(list, a.itemId)].text =
                            a.delta \o @]
        ELSE [s EXCEPT !.messagesByThread[a.threadId] =
                            Append(list, [id |-> a.itemId, text |-> a.delta,
                                          role |-> "assistant"])]

ReduceAppendAgentDeltaOnce(s, a) ==
    LET list == s.messagesByThread[a.threadId]
        old == list[FindIndex(list, a.itemId)].text
        n == Len(a.delta)
    IN  IF HasId(list, a.itemId)
        THEN IF Len(old) >= n /\ SubSeq(old, Len(old) - n + 1, Len(old)) = a.delta
             THEN s
             ELSE [s EXCEPT !.messagesByThread[a.threadId][FindIndex(list, a.itemId)].text =
                                @ \o a.delta]
        ELSE [s EXCEPT !.messagesByThread[a.threadId] =
                            Append(list, [id |-> a.itemId, text |-> a.delta,
                                          role |-> "assistant"])]

ReduceAppendAgentDelta(s, a) ==
    LET list == s.messagesByThread[a.threadId]
    IN  IF HasId(list, a.itemId)
        THEN [s EXCEPT !.messagesByThread[a.threadId][FindIndex(list, a.itemId)].text =
                            @ \o a.delta]
        ELSE [s EXCEPT !.messagesByThread[a.threadId] =
                            Append(list, [id |-> a.itemId, text |-> a.delta,
                                          role |-> "assistant"])]

ReduceCompleteAgentMessageOverwriting(s, a) ==
    LET list == s.messagesByThread[a.threadId]
    IN  IF HasId(list, a.itemId)
        THEN [s EXCEPT !.messagesByThread[a.threadId][FindIndex(list, a.itemId)].text =
                            a.text]
        ELSE [s EXCEPT !.messagesByThread[a.threadId] =
                            Append(list, [id |-> a.itemId, text |-> a.text,
                                          role |-> "assistant"])]

ReduceCompleteAgentMessage(s, a) ==
    LET list == s.messagesByThread[a.threadId]
    IN  IF HasId(list, a.itemId)
        THEN [s EXCEPT !.messagesByThread[a.threadId][FindIndex(list, a.itemId)].text =
                            IF a.text # << >> THEN a.text ELSE @]
        ELSE [s EXCEPT !.messagesByThread[a.threadId] =
                            Append(list, [id |-> a.itemId, text |-> a.text,
                                          role |-> "assistant"])]

ReduceAddApprovalDeduplicating(s, a) ==
    IF \E k \in 1..Len(s.approvals) : s.approvals[k].request_id = a.approval.request_id
    THEN s
    ELSE [s EXCEPT !.approvals = Append(@, a.approval)]

ReduceAddApproval(s, a) ==
    [s EXCEPT !.approvals = Append(@, a.approval)]

RECURSIVE RemoveFirstRequest(_, _)
RemoveFirstRequest(list, requestId) ==
    IF list = << >> THEN << >>
    ELSE IF Head(list).request_id = requestId THEN Tail(list)
    ELSE <<Head(list)>> \o RemoveFirstRequest(Tail(list), requestId)

ReduceRemoveApprovalFirstOnly(s, a) ==
    [s EXCEPT !.approvals = RemoveFirstRequest(@, a.requestId)]

ReduceRemoveApproval(s, a) ==
    [s EXCEPT !.approvals = FilterOutRequest(@, a.requestId)]

\* What the object passed as `state` holds once threadReducer(state, action) has
\* returned. appendAgentDelta and completeAgentMessage copy the message list
\* (`[...list]`) but not its records, and assign to `existing.text`: the record
\* is the one the argument state, and every earlier snapshot, refers to.
InputStateAfter(s, a) ==
    LET list == s.messagesByThread[a.threadId]
    IN  CASE a.type = "appendAgentDelta" ->
                IF HasId(list, a.itemId)
                THEN [s EXCEPT !.messagesByThread[a.threadId][FindIndex(list, a.itemId)].text =
                                    @ \o a.delta]
                ELSE s
          [] a.type = "completeAgentMessage" ->
                IF HasId(list, a.itemId)
                THEN [s EXCEPT !.messagesByThread[a.threadId][FindIndex(list, a.itemId)].text =
                                    IF a.text # << >> THEN a.text ELSE @]
                ELSE s
          [] OTHER -> s

threadReducer(s, a) ==
    CASE a.type = "setActiveThreadId" -> ReduceSetActiveThreadId(s, a)
      [] a.type = "ensureThread" -> ReduceEnsureThread(s, a)
      [] a.type = "addUserMessage" -> ReduceAddUserMessage(s, a)
      [] a.type = "appendAgentDelta" -> ReduceAppendAgentDelta(s, a)
      [] a.type = "completeAgentMessage" -> ReduceCompleteAgentMessage(s, a)
      [] a.type = "addApproval" -> ReduceAddApproval(s, a)
      [] a.type = "removeApproval" -> ReduceRemoveApproval(s, a)
      [] OTHER -> s

\* dispatch of a list of actions, in order
RECURSIVE Dispatch(_, _)
Dispatch(s, actions) ==
    IF actions = << >> THEN s
    ELSE Dispatch(threadReducer(s, Head(actions)), Tail(actions))

\* action constructors
EnsureThreadAction(w, t) == [type |-> "ensureThread", workspaceId |-> w, threadId |-> t]

SetActiveThreadAction(w, t) == [type |-> "setActiveThreadId", workspaceId |-> w, threadId |-> t]

AddUserMessageAction(t, m) == [type |-> "addUserMessage", threadId |-> t, message |-> m]

AppendAgentDeltaAction(t, i, d) ==
    [type |-> "appendAgentDelta", threadId |-> t, itemId |-> i, delta |-> d]

CompleteAgentMessageAction(t, i, x) ==
    [type |-> "completeAgentMessage", threadId |-> t, itemId |-> i, text |-> x]

AddApprovalAction(ap) == [type |-> "addApproval", approval |-> ap]

RemoveApprovalAction(r) == [type |-> "removeApproval", requestId |-> r]

\* what the success path of startThreadForWorkspace dispatches for thread id t
StartThreadDispatchesNoEnsure(w, t) == <<SetActiveThreadAction(w, t)>>

StartThreadDispatchesNoSelect(w, t) == <<EnsureThreadAction(w, t)>>

StartThreadDispatches(w, t) == <<EnsureThreadAction(w, t), SetActiveThreadAction(w, t)>>

AgentMessageDeltaDispatchesNoEnsure(w, t, i, d) == <<AppendAgentDeltaAction(t, i, d)>>

\* what handlers.onAgentMessageDelta dispatches
AgentMessageDeltaDispatches(w, t, i, d) ==
    <<EnsureThreadAction(w, t), AppendAgentDeltaAction(t, i, d)>>

\* what handlers.onAgentMessageCompleted dispatches
AgentMessageCompletedDispatches(w, t, i, x) ==
    <<EnsureThreadAction(w, t), CompleteAgentMessageAction(t, i, x)>>

\* ------------------------------------------------------- derived values
\* useMemo activeThreadId
activeThreadId ==
    IF activeWorkspace = Null THEN Null
    ELSE Coalesce(state.activeThreadIdByWorkspace[activeWorkspace], Null)


\* ids of the threads listed under workspace w in store s
ListedIds(s, w) == {s.threadsByWorkspace[w][k].id : k \in 1..Len(s.threadsByWorkspace[w])}

\* `${Date.now()}-user`
UserMessageId(ms) == ToString(ms) \o "-user"

\* the approval request the adapter builds from a requestApproval event that
\* carries no params ({} stands in, written << >>)
ApprovalMethod == "execCommand/requestApproval"

ApprovalRequest(w, r) ==
    [request_id |-> r, workspace_id |-> w, method |-> ApprovalMethod, params |-> << >>]

\* ------------------------------------------------------------ debug sink
\* list.slice(-n)
SliceLast(list, n) ==
    IF Len(list) <= n THEN list ELSE SubSeq(list, Len(list) - n + 1, Len(list))

\* how many records App keeps
DebugRetention == 300

\* a DebugEntry; its id and timestamp (both Date.now()) and its payload are not kept
DebugEntry(source, label) == [source |-> source, label |-> label]

ThreadStartClient == DebugEntry("client", "thread/start")

ThreadStartServer == DebugEntry("server", "thread/start response")

ThreadStartError == DebugEntry("error", "thread/start error")

TurnStartClient == DebugEntry("client", "turn/start")

TurnStartServer == DebugEntry("server", "turn/start response")

TurnStartError == DebugEntry("error", "turn/start error")

\* addDebugEntry of App: setDebugEntries((prev) => [...prev, entry].slice(-300))
addDebugEntry(prev, entry) == SliceLast(Append(prev, entry), DebugRetention)

RECURSIVE AddDebugEntries(_, _)
AddDebugEntries(prev, entries) ==
    IF entries = << >> THEN prev
    ELSE AddDebugEntries(addDebugEntry(prev, Head(entries)), Tail(entries))

\* onDebug?.(entry) for each of `entries`, in order: the sink takes them, and its
\* state update asks React for a render of App
OnDebug(entries) ==
    /\ debugEntries' = AddDebugEntries(debugEntries, entries)
    /\ renderPending' = (renderPending \/ entries # << >>)

\* what an operation of useThreads leaves alone
untouched == <<subs, lastRun, nDispatches, updater>>

\* ---------------------------------------------------- event feed adapter
\* Values of an inbound payload carry what typeof says of them. Method names and
\* ids are strings, delta and item texts sequences of characters.
JsUndefined == [tag |-> "undefined"]

JsString(x) == [tag |-> "string", val |-> x]

JsNumber(n) == [tag |-> "number", val |-> n]

JsObject(o) == [tag |-> "object", val |-> o]

\* a ?? b
JsCoalesce(a, b) == IF a.tag = "undefined" THEN b ELSE a

\* String(v ?? "") of a method name or an id
StringOr(v) ==
    IF v.tag = "string" THEN v.val
    ELSE IF v.tag = "number" THEN ToString(v.val)
    ELSE ""

\* String(v ?? "") of a text
TextOr(v) == IF v.tag = "string" THEN v.val ELSE << >>

\* haystack.includes(needle)
Includes(haystack, needle) ==
    \E k \in 1..(Len(haystack) - Len(needle) + 1) :
        SubSeq(haystack, k, k + Len(needle) - 1) = needle

\* message.params of the agent message events, and params.item
EventParams(threadId, itemId, delta, thread_id, item_id, item) ==
    JsObject([threadId |-> threadId, itemId |-> itemId, delta |-> delta,
              thread_id |-> thread_id, item_id |-> item_id, item |-> item])

EventItem(id, text, type) == JsObject([id |-> id, text |-> text, type |-> type])

\* an AppServerEvent
AppServerEvent(workspace_id, method, id, params) ==
    [message |-> [id |-> id, method |-> method, params |-> params],
     workspace_id |-> workspace_id]

DeltaMethod == JsString("item/agentMessage/delta")

CompletedMethod == JsString("item/completed")

ApprovalEventMethod == JsString(ApprovalMethod)

\* the inbound events of the model, by name
FeedEvents ==
    { "noMethod", "stderr", "connected", "approval", "approvalStringId",
      "delta", "deltaSnake", "deltaNoParams", "deltaNoText",
      "completed", "completedNoParams", "completedNoItem", "completedOtherItem",
      "completedNoText", "completedSnake", "completedNoThread" }

Payload(e) ==
    CASE e = "noMethod" -> AppServerEvent("w1", JsUndefined, JsUndefined, JsUndefined)
      [] e = "stderr" -> AppServerEvent("w1", JsString("codex/stderr"), JsUndefined, JsUndefined)
      [] e = "connected" ->
            AppServerEvent("w1", JsString("codex/connected"), JsUndefined, JsUndefined)
      [] e = "approval" -> AppServerEvent("w1", ApprovalEventMethod, JsNumber(7), JsUndefined)
      [] e = "approvalStringId" ->
            AppServerEvent("w1", ApprovalEventMethod, JsString("7"), JsUndefined)
      [] e = "delta" ->
            AppServerEvent("w1", DeltaMethod, JsUndefined,
                EventParams(JsString("t1"), JsString("i1"), JsString(<<"a">>),
                            JsUndefined, JsUndefined, JsUndefined))
      [] e = "deltaSnake" ->
            AppServerEvent("w1", DeltaMethod, JsUndefined,
                EventParams(JsUndefined, JsUndefined, JsString(<<"a">>),
                            JsString("t1"), JsString("i1"), JsUndefined))
      [] e = "deltaNoParams" -> AppServerEvent("w1", DeltaMethod, JsUndefined, JsUndefined)
      [] e = "deltaNoText" ->
            AppServerEvent("w1", DeltaMethod, JsUndefined,
                EventParams(JsString("t1"), JsString("i1"), JsUndefined,
                            JsUndefined, JsUndefined, JsUndefined))
      [] e = "completed" ->
            AppServerEvent("w1", CompletedMethod, JsUndefined,
                EventParams(JsString("t1"), JsUndefined, JsUndefined, JsUndefined, JsUndefined,
                            EventItem(JsString("i1"), JsString(<<"a">>), JsString("agentMessage"))))
      [] e = "completedNoParams" ->
            AppServerEvent("w1", CompletedMethod, JsUndefined, JsUndefined)
      [] e = "completedNoItem" ->
            AppServerEvent("w1", CompletedMethod, JsUndefined,
                EventParams(JsString("t1"), JsUndefined, JsUndefined, JsUndefined, JsUndefined,
                            JsUndefined))
      [] e = "completedOtherItem" ->
            AppServerEvent("w1", CompletedMethod, JsUndefined,
                EventParams(JsString("t1"), JsUndefined, JsUndefined, JsUndefined, JsUndefined,
                            EventItem(JsString("i1"), JsString(<<"a">>),
                                      JsString("commandExecution"))))
      [] e = "completedNoText" ->
            AppServerEvent("w1", CompletedMethod, JsUndefined,
                EventParams(JsString("t1"), JsUndefined, JsUndefined, JsUndefined, JsUndefined,
                            EventItem(JsString("i1"), JsUndefined, JsString("agentMessage"))))
      [] e = "completedSnake" ->
            AppServerEvent("w1", CompletedMethod, JsUndefined,
                EventParams(JsUndefined, JsUndefined, JsUndefined, JsString("t1"), JsUndefined,
                            EventItem(JsString("i1"), JsString(<<"a">>), JsString("agentMessage"))))
      [] e = "completedNoThread" ->
            AppServerEvent("w1", CompletedMethod, JsUndefined,
                EventParams(JsUndefined, JsUndefined, JsUndefined, JsUndefined, JsUndefined,
                            EventItem(JsString("i1"), JsString(<<"a">>), JsString("agentMessage"))))

\* one call of a handler of the handler set
Invocation(handler, arg) == [handler |-> handler, arg |-> arg]

\* how a run of the listen callback ends, and the handlers it has called, in order
RunReturned(invoked) == [invoked |-> invoked, threw |-> FALSE]

RunThrew(invoked) == [invoked |-> invoked, threw |-> TRUE]

DeltaBranchCamelOnly(payload, raw) ==
    LET params == payload.message.params
        threadId == StringOr(params.val.threadId)
        itemId == StringOr(params.val.itemId)
        delta == TextOr(params.val.delta)
    IN  IF params.tag # "object" THEN RunThrew(raw)
        ELSE IF threadId # "" /\ itemId # "" /\ delta # << >>
        THEN RunReturned(raw \o
                <<Invocation("onAgentMessageDelta",
                    [workspaceId |-> payload.workspace_id, threadId |-> threadId,
                     itemId |-> itemId, delta |-> delta])>>)
        ELSE RunReturned(raw)

\* the delta branch of the callback; reading a property of undefined params throws
DeltaBranch(payload, raw) ==
    LET params == payload.message.params
        threadId == StringOr(JsCoalesce(params.val.threadId, params.val.thread_id))
        itemId == StringOr(JsCoalesce(params.val.itemId, params.val.item_id))
        delta == TextOr(params.val.delta)
    IN  IF params.tag # "object" THEN RunThrew(raw)
        ELSE IF threadId # "" /\ itemId # "" /\ delta # << >>
        THEN RunReturned(raw \o
                <<Invocation("onAgentMessageDelta",
                    [workspaceId |-> payload.workspace_id, threadId |-> threadId,
                     itemId |-> itemId, delta |-> delta])>>)
        ELSE RunReturned(raw)

CompletedBranchAnyItem(payload, raw) ==
    LET params == payload.message.params
        threadId == StringOr(JsCoalesce(params.val.threadId, params.val.thread_id))
        item == params.val.item
        itemId == StringOr(item.val.id)
        text == TextOr(item.val.text)
    IN  IF params.tag # "object" THEN RunThrew(raw)
        ELSE IF threadId # "" /\ item.tag = "object" /\ itemId # ""
        THEN RunReturned(raw \o
                <<Invocation("onAgentMessageCompleted",
                    [workspaceId |-> payload.workspace_id, threadId |-> threadId,
                     text |-> text, itemId |-> itemId])>>)
        ELSE RunReturned(raw)

\* the item/completed branch of the callback
CompletedBranch(payload, raw) ==
    LET params == payload.message.params
        threadId == StringOr(JsCoalesce(params.val.threadId, params.val.thread_id))
        item == params.val.item
        itemId == StringOr(item.val.id)
        text == TextOr(item.val.text)
    IN  IF params.tag # "object" THEN RunThrew(raw)
        ELSE IF threadId # "" /\ item.tag = "object" /\ StringOr(item.val.type) = "agentMessage"
                /\ itemId # ""
        THEN RunReturned(raw \o
                <<Invocation("onAgentMessageCompleted",
                    [workspaceId |-> payload.workspace_id, threadId |-> threadId,
                     text |-> text, itemId |-> itemId])>>)
        ELSE RunReturned(raw)

ListenCallbackAnyId(payload) ==
    LET message == payload.message
        raw == <<Invocation("onAppServerEvent", payload)>>
        method == StringOr(message.method)
    IN  IF method = "codex/connected"
        THEN RunReturned(raw \o <<Invocation("onWorkspaceConnected", payload.workspace_id)>>)
        ELSE IF Includes(method, "requestApproval")
        THEN RunReturned(raw \o
                <<Invocation("onApprovalRequest",
                    [request_id |-> IF message.id.tag = "number" THEN message.id.val ELSE 0,
                     workspace_id |-> payload.workspace_id,
                     method |-> method,
                     params |-> IF message.params.tag = "undefined" THEN << >>
                                ELSE message.params.val])>>)
        ELSE IF method = "item/agentMessage/delta" THEN DeltaBranch(payload, raw)
        ELSE IF method = "item/completed" THEN CompletedBranch(payload, raw)
        ELSE RunReturned(raw)

ListenCallbackLooseTags(payload) ==
    LET message == payload.message
        raw == <<Invocation("onAppServerEvent", payload)>>
        method == StringOr(message.method)
    IN  IF Includes(method, "codex/")
        THEN RunReturned(raw \o <<Invocation("onWorkspaceConnected", payload.workspace_id)>>)
        ELSE IF Includes(method, "requestApproval") /\ message.id.tag = "number"
        THEN RunReturned(raw \o
                <<Invocation("onApprovalRequest",
                    [request_id |-> message.id.val, workspace_id |-> payload.workspace_id,
                     method |-> method,
                     params |-> IF message.params.tag = "undefined" THEN << >>
                                ELSE message.params.val])>>)
        ELSE IF method = "item/agentMessage/delta" THEN DeltaBranch(payload, raw)
        ELSE IF method = "item/completed" THEN CompletedBranch(payload, raw)
        ELSE RunReturned(raw)

ListenCallbackTracingLast(payload) ==
    LET message == payload.message
        raw == <<Invocation("onAppServerEvent", payload)>>
        method == StringOr(message.method)
    IN  IF method = "codex/connected"
        THEN RunReturned(<<Invocation("onWorkspaceConnected", payload.workspace_id)>> \o raw)
        ELSE IF method = "item/agentMessage/delta"
        THEN LET run == DeltaBranch(payload, << >>)
             IN  [run EXCEPT !.invoked = @ \o raw]
        ELSE RunReturned(raw)

\* the callback given to listen, run for one inbound payload
ListenCallback(payload) ==
    LET message == payload.message
        raw == <<Invocation("onAppServerEvent", payload)>>
        method == StringOr(message.method)
    IN  IF method = "codex/connected"
        THEN RunReturned(raw \o <<Invocation("onWorkspaceConnected", payload.workspace_id)>>)
        ELSE IF Includes(method, "requestApproval") /\ message.id.tag = "number"
        THEN RunReturned(raw \o
                <<Invocation("onApprovalRequest",
                    [request_id |-> message.id.val, workspace_id |-> payload.workspace_id,
                     method |-> method,
                     params |-> IF message.params.tag = "undefined" THEN << >>
                                ELSE message.params.val])>>)
        ELSE IF method = "item/agentMessage/delta" THEN DeltaBranch(payload, raw)
        ELSE IF method = "item/completed" THEN CompletedBranch(payload, raw)
        ELSE RunReturned(raw)

\* handlers.onAppServerEvent: the record given to onDebug
RawEventEntry(event) ==
    LET method == StringOr(event.message.method)
    IN  DebugEntry(IF method = "codex/stderr" THEN "stderr" ELSE "event",
                   IF method # "" THEN method ELSE "event")

\* the store actions one handler call dispatches
HandlerDispatches(inv) ==
    CASE inv.handler = "onApprovalRequest" -> <<AddApprovalAction(inv.arg)>>
      [] inv.handler = "onAgentMessageDelta" ->
            AgentMessageDeltaDispatches(inv.arg.workspaceId, inv.arg.threadId,
                                        inv.arg.itemId, inv.arg.delta)
      [] inv.handler = "onAgentMessageCompleted" ->
            AgentMessageCompletedDispatches(inv.arg.workspaceId, inv.arg.threadId,
                                            inv.arg.itemId, inv.arg.text)
      [] OTHER -> << >>

\* the records one handler call gives to onDebug
HandlerDebug(inv) ==
    IF inv.handler = "onAppServerEvent" THEN <<RawEventEntry(inv.arg)>> ELSE << >>

RECURSIVE RunDispatches(_)
RunDispatches(invoked) ==
    IF invoked = << >> THEN << >>
    ELSE HandlerDispatches(Head(invoked)) \o RunDispatches(Tail(invoked))

RECURSIVE RunDebug(_)
RunDebug(invoked) ==
    IF invoked = << >> THEN << >>
    ELSE HandlerDebug(Head(invoked)) \o RunDebug(Tail(invoked))

HandlerNames(invoked) == [k \in 1..Len(invoked) |-> invoked[k].handler]

\* list repeated n times
RECURSIVE Repeat(_, _)
Repeat(list, n) == IF n = 0 THEN << >> ELSE list \o Repeat(list, n - 1)

\* A subscription follows one run of the effect of useAppServerEvents:
\*   pc       "none" (the effect has not run), "pending" (listen was called),
\*            "registered" (the feed delivers to the callback, the promise of listen
\*            has not resolved yet), "listening" (the promise resolved: unlisten is
\*            set), "unlistened" (unlisten was called)
\*   cleaned  the cleanup of the effect has run
noSub == [pc |-> "none", cleaned |-> FALSE]

newSub == [pc |-> "pending", cleaned |-> FALSE]

\* after the mount of the hook: the effect has run once
mountedSubs == [s \in SubIds |-> IF s = 1 THEN newSub ELSE noSub]

\* the cleanup function of the effect: `if (unlisten) { unlisten(); }`
Cleanup(sub) ==
    IF sub.pc = "listening" THEN [pc |-> "unlistened", cleaned |-> TRUE]
    ELSE [sub EXCEPT !.cleaned = TRUE]

\* the feed delivers to the callback of subscription s
Live(s) == subs[s].pc \in {"registered", "listening"}

\* the latest effect run
Current == CHOOSE s \in SubIds : subs[s].pc # "none" /\ \A r \in SubIds : r > s => subs[r].pc = "none"

noRun == [invoked |-> << >>, threw |-> FALSE, event |-> "none", delivered |-> {}]

\* ------------------------------------------------------ user operations
\* A call slot follows one invocation of an async operation of the hook:
\*   op          which operation was invoked
\*   pc          "idle" (not invoked), "awaitStart" / "awaitSend" / "awaitRespond"
\*               (suspended on the outbound service call), "returned", "threw"
\*   workspaceId, threadId, text, request, decision
\*               the locals of the invocation that its continuation reads
\*   result      the value the promise resolved with
\*   dispatched  the store actions this invocation has dispatched, in order
idleCall ==
    [ workspaceId |-> Null, threadId |-> Null, text |-> << >>,
      op |-> "none", pc |-> "idle", request |-> Null, decision |-> Null,
      result |-> Undefined, dispatched |-> << >> ]

IdleCalls == {c \in CallIds : calls[c].pc = "idle"}

\* invocations take the call ids in order
IsNextCall(c) == c \in IdleCalls /\ \A d \in IdleCalls : c <= d

ActionTypes(actions) == [k \in 1..Len(actions) |-> actions[k].type]

\* the invocation c dispatches `actions` and moves on with the fields `upd`
DispatchFrom(c, actions, upd) ==
    /\ state' = Dispatch(state, actions)
    /\ stateNoSink' = Dispatch(stateNoSink, actions)
    /\ calls' = [calls EXCEPT ![c] =
                    [upd EXCEPT !.dispatched = calls[c].dispatched \o ActionTypes(actions)]]

\* the invocation is over: its frame is gone, the caller holds the outcome
Settled(c, pc, result) ==
    [idleCall EXCEPT !.op = calls[c].op, !.pc = pc, !.result = result,
                     !.request = calls[c].request]

\* useUpdater before its effects have run; what localStorage holds is left open
InitUpdater ==
    /\ stage = "idle"
    /\ updateRef = {}
    /\ latestTimeoutRef = {}
    /\ timers = {}
    /\ checkPc = [k \in 1..MaxChecks |-> "idle"]
    /\ installPc = "idle"
    /\ postUpdateNotice = Null
    /\ postUpdateFetchGeneration = 0
    /\ effectPc = [r \in 1..MaxEffectRuns |-> "idle"]
    /\ fetchGeneration = [r \in 1..MaxEffectRuns |-> 0]
    /\ cancelled = [r \in 1..MaxEffectRuns |-> FALSE]
    /\ dismissedWhileLoading = FALSE

\* useThreads, useAppServerEvents and the debug log after the first render
InitThreads ==
    /\ state = initialState
    /\ activeWorkspace \in Workspaces \cup {Null}
    /\ calls = [c \in CallIds |-> idleCall]
    /\ nEvents = 0
    /\ debugEntries = << >>
    /\ renderPending = FALSE
    /\ stateNoSink = initialState
    /\ subs = mountedSubs
    /\ lastRun = noRun
    /\ nDispatches = 0

\* the state after construction, no update having been installed before it
Init ==
    /\ InitThreads
    /\ InitUpdater
    /\ pendingVersion = Null

\* the state after construction, before the user has selected a workspace
InitUnselected == Init /\ activeWorkspace = Null

\* startThreadForWorkspace(workspaceId) up to `await startThreadService(workspaceId)`
StartThreadForWorkspace(c, w) ==
    /\ IsNextCall(c)
    /\ calls' = [calls EXCEPT ![c] =
                    [idleCall EXCEPT !.op = "startThread", !.pc = "awaitStart",
                                     !.workspaceId = w]]
    /\ OnDebug(<<ThreadStartClient>>)
    /\ UNCHANGED <<state, stateNoSink, activeWorkspace, nEvents, untouched>>

\* startThread(): null without an active workspace, else startThreadForWorkspace
StartThread(c) ==
    /\ IsNextCall(c)
    /\ IF activeWorkspace = Null
       THEN calls' = [calls EXCEPT ![c] =
                        [idleCall EXCEPT !.op = "startThread", !.pc = "returned",
                                         !.result = Null]]
       ELSE calls' = [calls EXCEPT ![c] =
                        [idleCall EXCEPT !.op = "startThread", !.pc = "awaitStart",
                                         !.workspaceId = activeWorkspace]]
    /\ OnDebug(IF activeWorkspace = Null THEN << >> ELSE <<ThreadStartClient>>)
    /\ UNCHANGED <<state, stateNoSink, activeWorkspace, nEvents, untouched>>

StartThreadResolveNoEnsure(c, id) ==
    /\ calls[c].op = "startThread" /\ calls[c].pc = "awaitStart"
    /\ IF id # ""
       THEN DispatchFrom(c, StartThreadDispatchesNoEnsure(calls[c].workspaceId, id),
                         Settled(c, "returned", id))
       ELSE DispatchFrom(c, << >>, Settled(c, "returned", Null))
    /\ OnDebug(<<ThreadStartServer>>)
    /\ UNCHANGED <<activeWorkspace, nEvents, untouched>>

StartThreadResolveFirstWins(c, id) ==
    /\ calls[c].op = "startThread" /\ calls[c].pc = "awaitStart"
    /\ IF id # "" /\ \A b \in CallIds :
                        ~(calls[b].op = "startThread" /\ calls[b].pc = "returned"
                            /\ calls[b].result # Null)
       THEN DispatchFrom(c, StartThreadDispatches(calls[c].workspaceId, id),
                         Settled(c, "returned", id))
       ELSE DispatchFrom(c, << >>, Settled(c, "returned", IF id # "" THEN id ELSE Null))
    /\ OnDebug(<<ThreadStartServer>>)
    /\ UNCHANGED <<activeWorkspace, nEvents, untouched>>

\* the thread/start response arrives: the try block after the await
StartThreadResolve(c, id) ==
    /\ calls[c].op = "startThread" /\ calls[c].pc = "awaitStart"
    /\ IF id # ""
       THEN DispatchFrom(c, StartThreadDispatches(calls[c].workspaceId, id),
                         Settled(c, "returned", id))
       ELSE DispatchFrom(c, << >>, Settled(c, "returned", Null))
    /\ OnDebug(<<ThreadStartServer>>)
    /\ UNCHANGED <<activeWorkspace, nEvents, untouched>>

StartThreadRejectDispatching(c) ==
    /\ calls[c].op = "startThread" /\ calls[c].pc = "awaitStart"
    /\ DispatchFrom(c, <<SetActiveThreadAction(calls[c].workspaceId, Null)>>,
                    Settled(c, "threw", Undefined))
    /\ OnDebug(<<ThreadStartError>>)
    /\ UNCHANGED <<activeWorkspace, nEvents, untouched>>

\* startThreadService throws: the catch block rethrows
StartThreadReject(c) ==
    /\ calls[c].op = "startThread" /\ calls[c].pc = "awaitStart"
    /\ DispatchFrom(c, << >>, Settled(c, "threw", Undefined))
    /\ OnDebug(<<ThreadStartError>>)
    /\ UNCHANGED <<activeWorkspace, nEvents, untouched>>

\* the part of sendUserMessage from `const message` to `await sendUserMessageService`;
\* ms is what Date.now() reads, pre the actions startThread() dispatched just before
SendInto(c, w, t, text, ms, pre) ==
    LET message == [id |-> UserMessageId(ms), text |-> Trim(text), role |-> "user"]
    IN  DispatchFrom(c, pre \o <<AddUserMessageAction(t, message)>>,
                     [calls[c] EXCEPT !.op = "sendUserMessage", !.pc = "awaitSend",
                                      !.workspaceId = w, !.threadId = t,
                                      !.text = message.text])

\* sendUserMessage(text) up to its first await
SendUserMessage(c, text, ms) ==
    /\ IsNextCall(c)
    /\ IF activeWorkspace = Null \/ Trim(text) = << >>
       THEN DispatchFrom(c, << >>,
                [idleCall EXCEPT !.op = "sendUserMessage", !.pc = "returned"])
       ELSE IF activeThreadId = Null
       THEN DispatchFrom(c, << >>,
                [idleCall EXCEPT !.op = "sendUserMessage", !.pc = "awaitStart",
                                 !.workspaceId = activeWorkspace, !.text = text])
       ELSE SendInto(c, activeWorkspace, activeThreadId, text, ms, << >>)
    /\ OnDebug(IF activeWorkspace = Null \/ Trim(text) = << >> THEN << >>
               ELSE IF activeThreadId = Null THEN <<ThreadStartClient>>
               ELSE <<TurnStartClient>>)
    /\ UNCHANGED <<activeWorkspace, nEvents, untouched>>

SendStartResolveIntoActive(c, id, ms) ==
    /\ calls[c].op = "sendUserMessage" /\ calls[c].pc = "awaitStart"
    /\ IF id # ""
       THEN SendInto(c, calls[c].workspaceId, Coalesce(activeThreadId, id), calls[c].text, ms,
                     StartThreadDispatches(calls[c].workspaceId, id))
       ELSE DispatchFrom(c, << >>, Settled(c, "returned", Undefined))
    /\ OnDebug(IF id # "" THEN <<ThreadStartServer, TurnStartClient>>
               ELSE <<ThreadStartServer>>)
    /\ UNCHANGED <<activeWorkspace, nEvents, untouched>>

\* sendUserMessage resumed by the thread/start response of its startThread()
SendStartResolve(c, id, ms) ==
    /\ calls[c].op = "sendUserMessage" /\ calls[c].pc = "awaitStart"
    /\ IF id # ""
       THEN SendInto(c, calls[c].workspaceId, id, calls[c].text, ms,
                     StartThreadDispatches(calls[c].workspaceId, id))
       ELSE DispatchFrom(c, << >>, Settled(c, "returned", Undefined))
    /\ OnDebug(IF id # "" THEN <<ThreadStartServer, TurnStartClient>>
               ELSE <<ThreadStartServer>>)
    /\ UNCHANGED <<activeWorkspace, nEvents, untouched>>

\* the startThread() of sendUserMessage throws: the error passes through
SendStartReject(c) ==
    /\ calls[c].op = "sendUserMessage" /\ calls[c].pc = "awaitStart"
    /\ DispatchFrom(c, << >>, Settled(c, "threw", Undefined))
    /\ OnDebug(<<ThreadStartError>>)
    /\ UNCHANGED <<activeWorkspace, nEvents, untouched>>

\* sendUserMessageService resolves
SendResolve(c) ==
    /\ calls[c].op = "sendUserMessage" /\ calls[c].pc = "awaitSend"
    /\ DispatchFrom(c, << >>, Settled(c, "returned", Undefined))
    /\ OnDebug(<<TurnStartServer>>)
    /\ UNCHANGED <<activeWorkspace, nEvents, untouched>>

\* sendUserMessageService throws: the catch block rethrows
SendReject(c) ==
    /\ calls[c].op = "sendUserMessage" /\ calls[c].pc = "awaitSend"
    /\ DispatchFrom(c, << >>, Settled(c, "threw", Undefined))
    /\ OnDebug(<<TurnStartError>>)
    /\ UNCHANGED <<activeWorkspace, nEvents, untouched>>

\* handleApprovalDecision(request, decision) up to `await respondToServerRequest`;
\* the request is the k-th the approvals panel shows
HandleApprovalDecision(c, k, decision) ==
    /\ IsNextCall(c)
    /\ k \in 1..Len(state.approvals)
    /\ DispatchFrom(c, << >>,
            [idleCall EXCEPT !.op = "handleApprovalDecision", !.pc = "awaitRespond",
                             !.workspaceId = state.approvals[k].workspace_id,
                             !.request = state.approvals[k], !.decision = decision])
    /\ UNCHANGED sink
    /\ UNCHANGED <<activeWorkspace, nEvents, untouched>>

\* respondToServerRequest resolves
RespondResolve(c) ==
    /\ calls[c].pc = "awaitRespond"
    /\ DispatchFrom(c, <<RemoveApprovalAction(calls[c].request.request_id)>>,
                    Settled(c, "returned", Undefined))
    /\ UNCHANGED sink
    /\ UNCHANGED <<activeWorkspace, nEvents, untouched>>

RespondRejectRemoving(c) ==
    /\ calls[c].pc = "awaitRespond"
    /\ DispatchFrom(c, <<RemoveApprovalAction(calls[c].request.request_id)>>,
                    Settled(c, "threw", Undefined))
    /\ UNCHANGED sink
    /\ UNCHANGED <<activeWorkspace, nEvents, untouched>>

\* respondToServerRequest throws: nothing catches it
RespondReject(c) ==
    /\ calls[c].pc = "awaitRespond"
    /\ DispatchFrom(c, << >>, Settled(c, "threw", Undefined))
    /\ UNCHANGED sink
    /\ UNCHANGED <<activeWorkspace, nEvents, untouched>>

\* setActiveThreadId(threadId, workspaceId?)
SetActiveThreadId(c, t, w) ==
    LET targetId == Coalesce(w, activeWorkspace)
    IN  /\ IsNextCall(c)
        /\ IF targetId = Null
           THEN DispatchFrom(c, << >>,
                    [idleCall EXCEPT !.op = "setActiveThreadId", !.pc = "returned"])
           ELSE DispatchFrom(c, <<SetActiveThreadAction(targetId, t)>>,
                    [idleCall EXCEPT !.op = "setActiveThreadId", !.pc = "returned"])
        /\ UNCHANGED sink
        /\ UNCHANGED <<activeWorkspace, nEvents, untouched>>

\* setActiveWorkspaceId(id) of useWorkspaces, seen here as the activeWorkspace prop
SetActiveWorkspaceId(c, w) ==
    /\ IsNextCall(c)
    /\ activeWorkspace' = w
    /\ calls' = [calls EXCEPT ![c] =
                    [idleCall EXCEPT !.op = "setActiveWorkspaceId", !.pc = "returned"]]
    /\ UNCHANGED <<state, stateNoSink, nEvents, sink, untouched>>

\* ------------------------------------------------------- inbound events
\* handlers.onApprovalRequest
OnApprovalRequest(approval) ==
    /\ nEvents < MaxEvents
    /\ nEvents' = nEvents + 1
    /\ state' = threadReducer(state, AddApprovalAction(approval))
    /\ stateNoSink' = threadReducer(stateNoSink, AddApprovalAction(approval))
    /\ UNCHANGED <<activeWorkspace, calls, sink, untouched>>

\* handlers.onAgentMessageDelta
OnAgentMessageDelta(w, t, i, d) ==
    /\ nEvents < MaxEvents
    /\ nEvents' = nEvents + 1
    /\ state' = Dispatch(state, AgentMessageDeltaDispatches(w, t, i, d))
    /\ stateNoSink' = Dispatch(stateNoSink, AgentMessageDeltaDispatches(w, t, i, d))
    /\ UNCHANGED <<activeWorkspace, calls, sink, untouched>>

\* handlers.onAgentMessageCompleted
OnAgentMessageCompleted(w, t, i, x) ==
    /\ nEvents < MaxEvents
    /\ nEvents' = nEvents + 1
    /\ state' = Dispatch(state, AgentMessageCompletedDispatches(w, t, i, x))
    /\ stateNoSink' = Dispatch(stateNoSink, AgentMessageCompletedDispatches(w, t, i, x))
    /\ UNCHANGED <<activeWorkspace, calls, sink, untouched>>

\* ---------------------------------------------------- event feed adapter
\* The feed emits the event named e: every registered callback runs for it. The
\* hook used without onDebug never replaces its handler set, so its listener is
\* the one of the mount, from its registration on.
FeedEvent(e) ==
    LET run == ListenCallback(Payload(e))
        live == {s \in SubIds : Live(s)}
        n == Cardinality(live)
        dispatches == RunDispatches(run.invoked)
    IN  /\ nEvents < MaxEvents
        /\ nEvents' = nEvents + 1
        /\ state' = Dispatch(state, Repeat(dispatches, n))
        /\ stateNoSink' = IF subs[1].pc \in {"registered", "listening", "unlistened"}
                          THEN Dispatch(stateNoSink, dispatches)
                          ELSE stateNoSink
        /\ OnDebug(Repeat(RunDebug(run.invoked), n))
        /\ lastRun' = [invoked |-> IF n = 0 THEN << >> ELSE HandlerNames(run.invoked),
                       threw |-> (n > 0 /\ run.threw),
                       event |-> e, delivered |-> live]
        /\ UNCHANGED <<activeWorkspace, calls, subs, nDispatches, updater>>

\* React renders App after a debug record: addDebugEntry is a new function, so
\* `handlers` is recomputed and the effect of useAppServerEvents runs again, its
\* cleanup first
Render ==
    /\ renderPending
    /\ Current < MaxSubs
    /\ renderPending' = FALSE
    /\ subs' = [subs EXCEPT ![Current] = Cleanup(@), ![Current + 1] = newSub]
    /\ UNCHANGED <<state, stateNoSink, activeWorkspace, calls, nEvents, debugEntries,
                   lastRun, nDispatches, updater>>

\* the feed has registered the callback of listen call s
ListenRegister(s) ==
    /\ subs[s].pc = "pending"
    /\ subs' = [subs EXCEPT ![s].pc = "registered"]
    /\ UNCHANGED <<state, stateNoSink, activeWorkspace, calls, nEvents, sink,
                   lastRun, nDispatches, updater>>

\* the promise of listen call s resolves: `.then((handler) => { unlisten = handler; })`
ListenResolve(s) ==
    /\ subs[s].pc = "registered"
    /\ subs' = [subs EXCEPT ![s].pc = "listening"]
    /\ UNCHANGED <<state, stateNoSink, activeWorkspace, calls, nEvents, sink,
                   lastRun, nDispatches, updater>>

\* ---------------------------------------------------------------- reducer
\* dispatch(a): the reducer applied to the store, outside of any handler
DispatchAction(a) ==
    /\ nDispatches < MaxDispatches
    /\ nDispatches' = nDispatches + 1
    /\ state' = threadReducer(state, a)
    /\ stateNoSink' = threadReducer(stateNoSink, a)
    /\ UNCHANGED <<activeWorkspace, calls, nEvents, sink, adapter, updater>>

\* ------------------------------------------------------------- updater
\* useUpdater, enabled and running under Tauri. Of UpdateState the model keeps
\* the stage; version, progress and error are written along with it and are
\* never read by the hook.
CheckIds == 1..MaxChecks

EffectRunIds == 1..MaxEffectRuns

\* __APP_VERSION__ after normalizeReleaseVersion, and any other version
CurrentVersion == "current"

OtherVersion == "other"

UpdaterError == DebugEntry("error", "updater/error")

ReleaseNotesError == DebugEntry("error", "updater/release-notes-error")

\* what an operation of useUpdater leaves alone
threadsHook == <<state, stateNoSink, activeWorkspace, calls, nEvents, adapter, nDispatches>>

postUpdate == <<postUpdateNotice, postUpdateFetchGeneration, pendingVersion, effectPc,
                fetchGeneration, cancelled, dismissedWhileLoading>>

\* clearLatestTimeout(): the timer the ref names is cleared, and the ref with it
ClearLatestTimeout ==
    /\ timers' = timers \ latestTimeoutRef
    /\ latestTimeoutRef' = {}

\* the check ids are handed out in order
IsNextCheck(k) ==
    /\ checkPc[k] = "idle"
    /\ \A j \in CheckIds : j < k => checkPc[j] # "idle"

\* checkForUpdates(options), up to `await check()`
CheckForUpdates(k, announceNoUpdate) ==
    /\ IsNextCheck(k)
    /\ ClearLatestTimeout
    /\ stage' = "checking"
    /\ checkPc' = [checkPc EXCEPT ![k] = IF announceNoUpdate THEN "awaitCheckAnnounce"
                                                              ELSE "awaitCheck"]
    /\ UNCHANGED <<updateRef, installPc, postUpdate, threadsHook, sink>>

\* check() resolves with null. With announceNoUpdate the stage becomes "latest"
\* and a timer is set that the ref names; the timer of check k has id k
CheckResolveNone(k) ==
    /\ checkPc[k] \in {"awaitCheck", "awaitCheckAnnounce"}
    /\ checkPc' = [checkPc EXCEPT ![k] = "returned"]
    /\ IF checkPc[k] = "awaitCheckAnnounce"
         THEN /\ stage' = "latest"
              /\ latestTimeoutRef' = {k}
              /\ timers' = timers \cup {k}
         ELSE /\ stage' = "idle"
              /\ UNCHANGED <<latestTimeoutRef, timers>>
    /\ UNCHANGED <<updateRef, installPc, postUpdate, threadsHook, sink>>

\* check() resolves with an update
CheckResolveUpdate(k) ==
    /\ checkPc[k] \in {"awaitCheck", "awaitCheckAnnounce"}
    /\ checkPc' = [checkPc EXCEPT ![k] = "returned"]
    /\ updateRef' = {k}
    /\ stage' = "available"
    /\ UNCHANGED <<latestTimeoutRef, timers, installPc, postUpdate, threadsHook, sink>>

\* check() rejects
CheckReject(k) ==
    /\ checkPc[k] \in {"awaitCheck", "awaitCheckAnnounce"}
    /\ checkPc' = [checkPc EXCEPT ![k] = "returned"]
    /\ OnDebug(<<UpdaterError>>)
    /\ stage' = "error"
    /\ UNCHANGED <<updateRef, latestTimeoutRef, timers, installPc, postUpdate, threadsHook>>

\* the callback given to window.setTimeout in checkForUpdates
LatestTimerFires(id) ==
    /\ id \in timers
    /\ timers' = timers \ {id}
    /\ latestTimeoutRef' = {}
    /\ stage' = "idle"
    /\ UNCHANGED <<updateRef, checkPc, installPc, postUpdate, threadsHook, sink>>

\* dismiss(), which is resetToIdle
ResetToIdle ==
    /\ ClearLatestTimeout
    /\ updateRef' = {}
    /\ stage' = "idle"
    /\ UNCHANGED <<checkPc, installPc, postUpdate, threadsHook, sink>>

\* startUpdate() with an update held, up to `await update.downloadAndInstall`
StartUpdate ==
    /\ updateRef # {}
    /\ installPc = "idle"
    /\ installPc' = "downloading"
    /\ stage' = "downloading"
    /\ UNCHANGED <<updateRef, latestTimeoutRef, timers, checkPc, postUpdate, threadsHook, sink>>

\* startUpdate() without one: `await checkForUpdates()`
StartUpdateChecks(k) ==
    /\ updateRef = {}
    /\ CheckForUpdates(k, FALSE)

\* the "Finished" download event
DownloadFinished ==
    /\ installPc = "downloading"
    /\ installPc' = "installing"
    /\ stage' = "installing"
    /\ UNCHANGED <<updateRef, latestTimeoutRef, timers, checkPc, postUpdate, threadsHook, sink>>

\* downloadAndInstall resolves, after the "Finished" event or without one: the
\* version is saved and relaunch() is awaited
InstallResolve ==
    /\ installPc \in {"downloading", "installing"}
    /\ installPc' = "relaunching"
    /\ stage' = "restarting"
    /\ pendingVersion' = OtherVersion
    /\ UNCHANGED <<updateRef, latestTimeoutRef, timers, checkPc, postUpdateNotice,
                   postUpdateFetchGeneration, effectPc, fetchGeneration, cancelled,
                   dismissedWhileLoading, threadsHook, sink>>

\* downloadAndInstall or relaunch rejects
InstallReject ==
    /\ installPc \in {"downloading", "installing", "relaunching"}
    /\ installPc' = "returned"
    /\ OnDebug(<<UpdaterError>>)
    /\ stage' = "error"
    /\ UNCHANGED <<updateRef, latestTimeoutRef, timers, checkPc, postUpdate, threadsHook>>

updateFlow == <<stage, updateRef, latestTimeoutRef, timers, checkPc, installPc>>

IsNextEffectRun(r) ==
    /\ effectPc[r] = "idle"
    /\ \A j \in EffectRunIds : j < r => effectPc[j] # "idle"

\* the cleanup of the runs before run r
CancelledBefore(r) == [j \in EffectRunIds |-> cancelled[j] \/ j < r]

\* the post-update effect runs (on mount, and again when onDebug changes), after
\* the cleanup of the run before
PostUpdateEffect(r) ==
    /\ IsNextEffectRun(r)
    /\ cancelled' = CancelledBefore(r)
    /\ IF pendingVersion = Null
         THEN /\ effectPc' = [effectPc EXCEPT ![r] = "returned"]
              /\ UNCHANGED <<pendingVersion, postUpdateFetchGeneration, fetchGeneration,
                             postUpdateNotice>>
         ELSE IF pendingVersion # CurrentVersion
         THEN /\ pendingVersion' = Null
              /\ effectPc' = [effectPc EXCEPT ![r] = "returned"]
              /\ UNCHANGED <<postUpdateFetchGeneration, fetchGeneration, postUpdateNotice>>
         ELSE /\ postUpdateFetchGeneration' = postUpdateFetchGeneration + 1
              /\ fetchGeneration' = [fetchGeneration EXCEPT ![r] = postUpdateFetchGeneration + 1]
              /\ postUpdateNotice' = "loading"
              /\ effectPc' = [effectPc EXCEPT ![r] = "fetching"]
              /\ UNCHANGED pendingVersion
    /\ UNCHANGED <<dismissedWhileLoading, updateFlow, threadsHook, sink>>

\* `cancelled || postUpdateFetchGenerationRef.current !== generation`
FetchIsStale(r) ==
    cancelled[r] \/ postUpdateFetchGeneration # fetchGeneration[r]

\* fetchReleaseNotesForVersion resolves, with a body or without
FetchResolve(r, hasBody) ==
    /\ effectPc[r] = "fetching"
    /\ effectPc' = [effectPc EXCEPT ![r] = "returned"]
    /\ postUpdateNotice' = IF FetchIsStale(r) THEN postUpdateNotice
                           ELSE IF hasBody THEN "ready" ELSE "fallback"
    /\ UNCHANGED <<postUpdateFetchGeneration, pendingVersion, fetchGeneration, cancelled,
                   dismissedWhileLoading, updateFlow, threadsHook, sink>>

\* fetchReleaseNotesForVersion rejects
FetchReject(r) ==
    /\ effectPc[r] = "fetching"
    /\ effectPc' = [effectPc EXCEPT ![r] = "returned"]
    /\ IF FetchIsStale(r)
         THEN UNCHANGED <<postUpdateNotice, sink>>
         ELSE /\ OnDebug(<<ReleaseNotesError>>)
              /\ postUpdateNotice' = "fallback"
    /\ UNCHANGED <<postUpdateFetchGeneration, pendingVersion, fetchGeneration, cancelled,
                   dismissedWhileLoading, updateFlow, threadsHook>>

FetchPending == \E r \in EffectRunIds : effectPc[r] = "fetching"

\* a dismissal that leaves the fetch generation as it is
DismissPostUpdateNoticeKeepingGeneration ==
    /\ postUpdateFetchGeneration < MaxGeneration
    /\ pendingVersion' = Null
    /\ postUpdateNotice' = Null
    /\ dismissedWhileLoading' = (dismissedWhileLoading \/ FetchPending)
    /\ UNCHANGED <<postUpdateFetchGeneration, effectPc, fetchGeneration, cancelled,
                   updateFlow, threadsHook, sink>>

\* dismissPostUpdateNotice()
DismissPostUpdateNotice ==
    /\ postUpdateFetchGeneration < MaxGeneration
    /\ postUpdateFetchGeneration' = postUpdateFetchGeneration + 1
    /\ pendingVersion' = Null
    /\ postUpdateNotice' = Null
    /\ dismissedWhileLoading' = (dismissedWhileLoading \/ FetchPending)
    /\ UNCHANGED <<effectPc, fetchGeneration, cancelled, updateFlow, threadsHook, sink>>

\* ------------------------------------------------------- specifications
\* The store is driven by several families of operations. Each specification
\* below lets the environment use one family, on the same state and with the
\* same actions, so that every behaviour within the bounds is explored.

\* thread lifecycle: thread starts, selections and agent message events, from
\* the first render on (a workspace is selected with setActiveWorkspaceId)
Next ==
    \/ \E c \in CallIds, w \in Workspaces : StartThreadForWorkspace(c, w)
    \/ \E c \in CallIds : StartThread(c)
    \/ \E c \in CallIds, id \in ResponseIds : StartThreadResolve(c, id)
    \/ \E c \in CallIds : StartThreadReject(c)
    \/ \E c \in CallIds, t \in ThreadIds \cup {Null}, w \in Workspaces \cup {Undefined} :
           SetActiveThreadId(c, t, w)
    \/ \E c \in CallIds, w \in Workspaces \cup {Null} : SetActiveWorkspaceId(c, w)
    \/ \E w \in Workspaces, t \in ThreadIds, i \in ItemIds, d \in Deltas :
           OnAgentMessageDelta(w, t, i, d)
    \/ \E w \in Workspaces, t \in ThreadIds, i \in ItemIds, x \in NonEmptyTexts :
           OnAgentMessageCompleted(w, t, i, x)

Spec == InitUnselected /\ [][Next]_vars

\* selection: thread starts that succeed for a named workspace, selections of a
\* thread and agent message events, with no workspace selected
NextSelection ==
    \/ \E c \in CallIds, w \in Workspaces : StartThreadForWorkspace(c, w)
    \/ \E c \in CallIds, id \in ResponseIds : StartThreadResolve(c, id)
    \/ \E c \in CallIds, t \in ThreadIds \cup {Null}, w \in Workspaces \cup {Undefined} :
           SetActiveThreadId(c, t, w)
    \/ \E w \in Workspaces, t \in ThreadIds, i \in ItemIds, d \in Deltas :
           OnAgentMessageDelta(w, t, i, d)
    \/ \E w \in Workspaces, t \in ThreadIds, i \in ItemIds, x \in NonEmptyTexts :
           OnAgentMessageCompleted(w, t, i, x)

SpecSelection == InitUnselected /\ [][NextSelection]_vars

\* messages: sending user messages, and agent message events
NextMessages ==
    \/ \E c \in CallIds, text \in UserTexts, ms \in Clock : SendUserMessage(c, text, ms)
    \/ \E c \in CallIds, id \in ResponseIds, ms \in Clock : SendStartResolve(c, id, ms)
    \/ \E c \in CallIds : SendStartReject(c)
    \/ \E c \in CallIds : SendResolve(c)
    \/ \E c \in CallIds : SendReject(c)
    \/ \E c \in CallIds, w \in Workspaces \cup {Null} : SetActiveWorkspaceId(c, w)
    \/ \E w \in Workspaces, t \in ThreadIds, i \in ItemIds, d \in Deltas :
           OnAgentMessageDelta(w, t, i, d)
    \/ \E w \in Workspaces, t \in ThreadIds, i \in ItemIds, x \in CompletedTexts :
           OnAgentMessageCompleted(w, t, i, x)

SpecMessages == Init /\ [][NextMessages]_vars

\* sending: sendUserMessage up to its outbound send, selections as App makes
\* them (null, or a thread the workspace lists) and agent message events; the
\* clock stands still
NextSend ==
    \/ \E c \in CallIds, text \in UserTexts : SendUserMessage(c, text, 0)
    \/ \E c \in CallIds, id \in ResponseIds : SendStartResolve(c, id, 0)
    \/ \E c \in CallIds : SendStartReject(c)
    \/ \E c \in CallIds, w \in Workspaces :
           \E t \in ListedIds(state, w) \cup {Null} : SetActiveThreadId(c, t, w)
    \/ \E w \in Workspaces, t \in ThreadIds, i \in ItemIds, d \in Deltas :
           OnAgentMessageDelta(w, t, i, d)
    \/ \E w \in Workspaces, t \in ThreadIds, i \in ItemIds, x \in NonEmptyTexts :
           OnAgentMessageCompleted(w, t, i, x)

SpecSend == Init /\ [][NextSend]_vars

\* approvals: approval request events and the user's decisions
NextApprovals ==
    \/ \E w \in Workspaces, r \in RequestIds : OnApprovalRequest(ApprovalRequest(w, r))
    \/ \E c \in CallIds, k \in 1..MaxEvents, d \in Decisions : HandleApprovalDecision(c, k, d)
    \/ \E c \in CallIds : RespondResolve(c)
    \/ \E c \in CallIds : RespondReject(c)

SpecApprovals == Init /\ [][NextApprovals]_vars

\* the event feed: inbound events, renders after debug records, listen calls
NextFeed ==
    \/ \E e \in FeedEvents : FeedEvent(e)
    \/ Render
    \/ \E s \in SubIds : ListenRegister(s)
    \/ \E s \in SubIds : ListenResolve(s)

SpecFeed == Init /\ [][NextFeed]_vars

\* the payloads the reducer is driven with
StoreDeltas == {<<"a">>, <<"b">>}

StoreTexts == {<< >>, <<"c">>}

\* the store alone: any sequence of actions
NextStore ==
    \/ \E w \in Workspaces, t \in ThreadIds \cup {Null} :
            DispatchAction(SetActiveThreadAction(w, t))
    \/ \E w \in Workspaces, t \in ThreadIds : DispatchAction(EnsureThreadAction(w, t))
    \/ \E t \in ThreadIds, ms \in {0, MaxClock} :
            DispatchAction(AddUserMessageAction(t,
                [id |-> UserMessageId(ms), text |-> <<"h">>, role |-> "user"]))
    \/ \E t \in ThreadIds, i \in ItemIds, d \in StoreDeltas :
            DispatchAction(AppendAgentDeltaAction(t, i, d))
    \/ \E t \in ThreadIds, i \in ItemIds, x \in StoreTexts :
            DispatchAction(CompleteAgentMessageAction(t, i, x))
    \/ \E w \in Workspaces, r \in RequestIds :
            DispatchAction(AddApprovalAction(ApprovalRequest(w, r)))
    \/ \E r \in RequestIds : DispatchAction(RemoveApprovalAction(r))

SpecStore == Init /\ [][NextStore]_vars

\* the update flow: checks, the 'latest' toast timer, installs and dismissals
NextUpdater ==
    \/ \E k \in CheckIds, announceNoUpdate \in BOOLEAN : CheckForUpdates(k, announceNoUpdate)
    \/ \E k \in CheckIds : CheckResolveNone(k)
    \/ \E k \in CheckIds : CheckResolveUpdate(k)
    \/ \E k \in CheckIds : CheckReject(k)
    \/ \E id \in CheckIds : LatestTimerFires(id)
    \/ ResetToIdle
    \/ StartUpdate
    \/ \E k \in CheckIds : StartUpdateChecks(k)
    \/ DownloadFinished
    \/ InstallResolve
    \/ InstallReject

SpecUpdater == InitUnselected /\ [][NextUpdater]_vars

PendingVersions == {Null, CurrentVersion, OtherVersion}

\* the state after construction, whatever version an earlier install has saved
InitRelaunched ==
    /\ InitThreads
    /\ activeWorkspace = Null
    /\ InitUpdater
    /\ pendingVersion \in PendingVersions

\* the post-update notice: the effect, its fetch and the dismissal
NextPostUpdate ==
    \/ \E r \in EffectRunIds : PostUpdateEffect(r)
    \/ \E r \in EffectRunIds, hasBody \in BOOLEAN : FetchResolve(r, hasBody)
    \/ \E r \in EffectRunIds : FetchReject(r)
    \/ DismissPostUpdateNotice

SpecPostUpdate == InitRelaunched /\ [][NextPostUpdate]_vars

\* ================================================================ claims
\* how often thread id t occurs in the list of workspace w in store s
Occurrences(s, w, t) ==
    Cardinality({k \in 1..Len(s.threadsByWorkspace[w]) : s.threadsByWorkspace[w][k].id = t})

\* the agent message events that can reference thread t of workspace w, as dispatch lists
EventsReferencing(w, t) ==
    {AgentMessageDeltaDispatches(w, t, i, d) : i \in ItemIds, d \in Deltas}
        \cup {AgentMessageCompletedDispatches(w, t, i, x) : i \in ItemIds, x \in CompletedTexts}

\* C1: for a thread id t no workspace lists yet, processing the successful
\* thread/start response for (w, t) and an agent message event referencing (w, t)
\* gives the same store in either order; in it w lists t exactly once and w's
\* active pointer is t.
C1_StartAndEventConverge ==
    \A w \in Workspaces, t \in ThreadIds :
        (\A v \in Workspaces : t \notin ListedIds(state, v)) =>
            \A ev \in EventsReferencing(w, t) :
                LET responseFirst == Dispatch(Dispatch(state, StartThreadDispatches(w, t)), ev)
                    eventFirst == Dispatch(Dispatch(state, ev), StartThreadDispatches(w, t))
                IN  /\ responseFirst = eventFirst
                    /\ Occurrences(eventFirst, w, t) = 1
                    /\ eventFirst.activeThreadIdByWorkspace[w] = t

\* C1 witness: a thread/start call has returned t for a workspace whose list was
\* built by that response and by an event referencing t, and other threads are
\* still unknown.
C1_Witness ==
    \E c \in CallIds, w \in Workspaces :
        /\ calls[c].op = "startThread" /\ calls[c].pc = "returned"
        /\ calls[c].result \in ThreadIds
        /\ Occurrences(state, w, calls[c].result) = 1
        /\ state.activeThreadIdByWorkspace[w] = calls[c].result
        /\ state.messagesByThread[calls[c].result] # << >>
        /\ \E t \in ThreadIds : \A v \in Workspaces : t \notin ListedIds(state, v)

\* C4: when the outbound thread-start call throws, startThread throws too and
\* has dispatched no store action: the step leaves the whole store unchanged.
C4_StartFailureMutatesNothing ==
    [][\A c \in CallIds :
            (calls[c].op = "startThread" /\ calls[c].pc = "awaitStart"
                /\ calls'[c].pc # "awaitStart")
            => /\ calls'[c].pc \in {"returned", "threw"}
               /\ calls'[c].pc = "threw" =>
                    /\ state' = state
                    /\ calls'[c].dispatched = << >>
                    /\ calls'[c].result = Undefined]_vars

\* C4 witness: a thread start has thrown while the store holds threads, a
\* selection and messages that the failure could have disturbed.
C4_Witness ==
    \E c \in CallIds, w \in Workspaces :
        /\ calls[c].op = "startThread" /\ calls[c].pc = "threw"
        /\ state.threadsByWorkspace[w] # << >>
        /\ state.activeThreadIdByWorkspace[w] # Null

\* no active pointer dangles in store s
NoDanglingPointer(s) ==
    \A w \in Workspaces :
        s.activeThreadIdByWorkspace[w] = Null
            \/ s.activeThreadIdByWorkspace[w] \in ListedIds(s, w)

\* C7 (as stated): in every reachable state each workspace's active pointer is null
\* or the id of a thread in that workspace's list.
C7_PointerNeverDangles == NoDanglingPointer(state)

\* a setActiveThreadId call that names a thread its target workspace does not list
UnlistedSelection ==
    \E c \in CallIds, t \in ThreadIds, w \in Workspaces \cup {Undefined} :
        /\ SetActiveThreadId(c, t, w)
        /\ Coalesce(w, activeWorkspace) # Null
        /\ t \notin ListedIds(state, Coalesce(w, activeWorkspace))

\* C7 (amended): a pointer dangles only through a setActiveThreadId call that names
\* an unlisted thread; every other step (selection of null or of a listed thread,
\* thread start, agent message event) keeps all pointers null or listed.
C7_OnlyUnlistedSelectionDangles ==
    [][(NoDanglingPointer(state) /\ ~UnlistedSelection) => NoDanglingPointer(state')]_vars

\* C7 witness: a thread start has returned and a selection was made, and a pointer
\* names a listed thread.
C7_Witness ==
    /\ NoDanglingPointer(state)
    /\ \E c \in CallIds : calls[c].op = "setActiveThreadId"
    /\ \E c \in CallIds : calls[c].op = "startThread" /\ calls[c].result \in ThreadIds
    /\ \E w \in Workspaces : state.activeThreadIdByWorkspace[w] # Null

\* C8 (as stated): a thread id occurs at most once across the thread lists of all
\* workspaces together.
C8_ThreadIdGloballyUnique ==
    \A t \in ThreadIds :
        /\ \A w \in Workspaces : Occurrences(state, w, t) <= 1
        /\ \A w, v \in Workspaces :
                (t \in ListedIds(state, w) /\ t \in ListedIds(state, v)) => w = v

\* C10: EnsureThread is idempotent: applied twice it gives the store it gives
\* applied once, and applied to a listed thread it changes nothing.
C10_EnsureThreadIdempotent ==
    \A w \in Workspaces, t \in ThreadIds :
        LET once == threadReducer(state, EnsureThreadAction(w, t))
            twice == threadReducer(once, EnsureThreadAction(w, t))
        IN  /\ twice.threadsByWorkspace = once.threadsByWorkspace
            /\ twice.activeThreadIdByWorkspace = once.activeThreadIdByWorkspace
            /\ twice = once
            /\ t \in ListedIds(state, w) => once = state
            /\ t \notin ListedIds(state, w) => Occurrences(once, w, t) = 1

\* C10 witness: EnsureThread has listed a thread under one workspace while another
\* thread is not listed there, so both cases of the claim occur.
C10_Witness ==
    \E w \in Workspaces, t, u \in ThreadIds :
        /\ t \in ListedIds(state, w)
        /\ u \notin ListedIds(state, w)
        /\ state.activeThreadIdByWorkspace[w] \notin {Null, t}

\* how many entries of the approvals list `list` carry request id r
EntriesWithRequestId(list, r) ==
    Cardinality({k \in 1..Len(list) : list[k].request_id = r})

\* the approvals list holds the entry `request`
HoldsEntry(list, request) == \E k \in 1..Len(list) : list[k] = request

\* the entries of `list` that belong to another workspace than w, in order
RECURSIVE EntriesOfOthers(_, _)
EntriesOfOthers(list, w) ==
    IF list = << >> THEN << >>
    ELSE IF Head(list).workspace_id # w
         THEN <<Head(list)>> \o EntriesOfOthers(Tail(list), w)
         ELSE EntriesOfOthers(Tail(list), w)

\* in this step the respond call of invocation c settles with outcome pc
RespondSettles(c, pc) ==
    calls[c].pc = "awaitRespond" /\ calls'[c].pc = pc

\* C5: an entry leaves the approvals list only in the step in which a respond call
\* for its request id returns successfully; when the respond call throws, the
\* invocation throws, has dispatched nothing, and the list (with the entry of the
\* request, if it held it) is as it was.
C5_RemovalOnlyAfterSuccess ==
    [][/\ \A r \in RequestIds :
            EntriesWithRequestId(state'.approvals, r) < EntriesWithRequestId(state.approvals, r)
                => \E c \in CallIds : /\ RespondSettles(c, "returned")
                                      /\ calls[c].request.request_id = r
       /\ \A c \in CallIds :
            (calls[c].pc = "awaitRespond" /\ calls'[c].pc # "awaitRespond")
                => /\ calls'[c].pc \in {"returned", "threw"}
                   /\ RespondSettles(c, "threw") =>
                        /\ state'.approvals = state.approvals
                        /\ calls'[c].dispatched = << >>
                        /\ HoldsEntry(state.approvals, calls[c].request)
                                => HoldsEntry(state'.approvals, calls'[c].request)]_vars

\* C5 witness: a respond call has thrown and the entry of its request is still in
\* the approvals list.
C5_Witness ==
    \E c \in CallIds :
        /\ calls[c].op = "handleApprovalDecision" /\ calls[c].pc = "threw"
        /\ HoldsEntry(state.approvals, calls[c].request)

\* C6 (as stated): deciding a pending request of one workspace leaves every entry
\* of the other workspaces in the approvals list.
C6_OtherWorkspacesUntouched ==
    [][\A c \in CallIds :
            (calls[c].pc = "awaitRespond" /\ calls'[c].pc # "awaitRespond")
                => EntriesOfOthers(state'.approvals, calls[c].request.workspace_id)
                        = EntriesOfOthers(state.approvals, calls[c].request.workspace_id)]_vars

\* invocation c has dispatched no store action
NothingDispatched(c) == calls[c].dispatched = << >>

\* invocation c has dispatched a store action of type ty
HasDispatched(c, ty) ==
    \E k \in 1..Len(calls[c].dispatched) : calls[c].dispatched[k] = ty

\* C2 (as stated): when the send-message call of sendUserMessage throws, the
\* invocation throws and has changed nothing in the store: it has dispatched no
\* store action.
C2_FailedSendLeavesNoTrace ==
    \A c \in CallIds :
        (calls[c].op = "sendUserMessage" /\ calls[c].pc = "threw") => NothingDispatched(c)

\* C3 (as stated): an invocation of a user action dispatches a store action only
\* once the outbound call the action belongs to has returned successfully: a thread
\* start and an approval decision nothing before their call returned, and
\* sendUserMessage no user message before its send-message call returned.
C3_NoTransitionBeforeSuccess ==
    \A c \in CallIds :
        /\ (calls[c].op \in {"startThread", "handleApprovalDecision"}
                /\ calls[c].pc \in {"awaitStart", "awaitRespond", "threw"})
            => NothingDispatched(c)
        /\ (calls[c].op = "sendUserMessage" /\ calls[c].pc = "awaitStart")
            => NothingDispatched(c)
        /\ (calls[c].op = "sendUserMessage" /\ calls[c].pc \in {"awaitSend", "threw"})
            => ~HasDispatched(c, "addUserMessage")

\* the ids of the messages of list `list` are pairwise distinct
UniqueMessageIds(list) ==
    \A j, k \in 1..Len(list) : list[j].id = list[k].id => j = k

\* C9 (as stated): every thread's message list holds at most one message per id,
\* and the messages keep the order in which they were inserted: a step only
\* appends to a list or changes the text of a message in place.
C9_UniqueIdsInInsertionOrder ==
    [][\A t \in ThreadIds :
            LET before == state.messagesByThread[t]
                after == state'.messagesByThread[t]
            IN  /\ UniqueMessageIds(after)
                /\ Len(after) >= Len(before)
                /\ \A k \in 1..Len(before) : after[k].id = before[k].id]_vars

\* ---------------------------------------------- agent messages (C17..C20)
\* payloads and item ids the reducer is replayed with from every reachable store
ReplayDeltas == {<<"a">>, <<"b", "a">>}

ReplayItemIds == ItemIds \cup {"i2"}

ReplayTexts == ReplayDeltas \cup {<< >>}

\* d1, ..., dn with 1 <= n <= MaxDeltas
DeltaRuns == UNION {[1..n -> ReplayDeltas] : n \in 1..MaxDeltas}

\* d1 ++ ... ++ dn
RECURSIVE ConcatFrom(_, _)
ConcatFrom(ds, k) == IF k > Len(ds) THEN << >> ELSE ds[k] \o ConcatFrom(ds, k + 1)

Concat(ds) == ConcatFrom(ds, 1)

\* the store after AppendAssistantDelta(t, i, d1), ..., AppendAssistantDelta(t, i, dn)
RECURSIVE ApplyDeltasFrom(_, _, _, _, _)
ApplyDeltasFrom(s, t, i, ds, k) ==
    IF k > Len(ds) THEN s
    ELSE ApplyDeltasFrom(threadReducer(s, AppendAgentDeltaAction(t, i, ds[k])), t, i, ds, k + 1)

ApplyDeltas(s, t, i, ds) == ApplyDeltasFrom(s, t, i, ds, 1)

\* the positions of the messages with id i in `list`
PositionsOf(list, i) == {k \in 1..Len(list) : list[k].id = i}

\* C17: applying AppendAssistantDelta(t, i, d1), ..., (t, i, dn) to a store where
\* thread t has no message i yields exactly one message with id i in t, appended
\* after the messages t had, with role assistant and text d1 ++ ... ++ dn; nothing
\* else in the store changes.
C17_DeltasAccumulateInOrder ==
    \A t \in ThreadIds, i \in ReplayItemIds, ds \in DeltaRuns :
        ~HasId(state.messagesByThread[t], i) =>
            LET after == ApplyDeltas(state, t, i, ds)
            IN  /\ Cardinality(PositionsOf(after.messagesByThread[t], i)) = 1
                /\ after.messagesByThread[t] =
                        Append(state.messagesByThread[t],
                               [id |-> i, text |-> Concat(ds), role |-> "assistant"])
                /\ after = [state EXCEPT !.messagesByThread[t] = after.messagesByThread[t]]

\* C17 witness: delta events have accumulated two payloads in one assistant
\* message of a thread that also holds a user message, and another item id is
\* still absent from the thread.
C17_Witness ==
    \E t \in ThreadIds, i \in ItemIds :
        /\ HasId(state.messagesByThread[t], i)
        /\ LET m == state.messagesByThread[t][FindIndex(state.messagesByThread[t], i)]
           IN  m.role = "assistant" /\ Len(m.text) >= 2
        /\ \E k \in 1..Len(state.messagesByThread[t]) : state.messagesByThread[t][k].role = "user"
        /\ \E j \in ReplayItemIds : ~HasId(state.messagesByThread[t], j)

\* the text of message i of thread t in store s
TextOf(s, t, i) == s.messagesByThread[t][FindIndex(s.messagesByThread[t], i)].text

\* the positions of the assistant messages in `list`
AssistantPositions(list) == {k \in 1..Len(list) : list[k].role = "assistant"}

\* C18 (as stated): when workspace w does not list thread t, two delta events for
\* item i of (w, t) leave t exactly once in w's list, and t holds exactly one
\* assistant message, whose text is the two payloads in arrival order.
C18_UnknownThreadCreatedThenAccumulates ==
    \A w \in Workspaces, t \in ThreadIds, i \in ReplayItemIds, d1, d2 \in ReplayDeltas :
        t \notin ListedIds(state, w) =>
            LET first == Dispatch(state, AgentMessageDeltaDispatches(w, t, i, d1))
                after == Dispatch(first, AgentMessageDeltaDispatches(w, t, i, d2))
                list == after.messagesByThread[t]
            IN  /\ Occurrences(first, w, t) = 1
                /\ Occurrences(after, w, t) = 1
                /\ Cardinality(AssistantPositions(list)) = 1
                /\ \A k \in AssistantPositions(list) :
                        list[k].id = i /\ list[k].text = d1 \o d2

\* C19: CompleteAssistantMessage(t, i, text) on a thread that has message i sets
\* its text to the supplied text when that is non-empty and keeps the text when it
\* is empty, leaving the id, the role and the position of the message as they
\* were; on a thread without message i it appends an assistant message i with the
\* supplied text. Nothing else in the store changes.
C19_CompletionGuard ==
    \A t \in ThreadIds, i \in ReplayItemIds, x \in ReplayTexts :
        LET list == state.messagesByThread[t]
            after == threadReducer(state, CompleteAgentMessageAction(t, i, x))
            k == FindIndex(list, i)
        IN  /\ after = [state EXCEPT !.messagesByThread[t] = after.messagesByThread[t]]
            /\ HasId(list, i) =>
                /\ Len(after.messagesByThread[t]) = Len(list)
                /\ \A j \in 1..Len(list) : j # k => after.messagesByThread[t][j] = list[j]
                /\ after.messagesByThread[t][k].id = i
                /\ after.messagesByThread[t][k].role = list[k].role
                /\ x # << >> => after.messagesByThread[t][k].text = x
                /\ x = << >> => after.messagesByThread[t][k].text = list[k].text
            /\ ~HasId(list, i) =>
                after.messagesByThread[t] =
                    Append(list, [id |-> i, text |-> x, role |-> "assistant"])

\* C19 witness: a completion has set the text of a message, so that an empty
\* completion would have text to keep, and another thread is still without the
\* message.
C19_Witness ==
    \E t, u \in ThreadIds, i \in ItemIds :
        /\ HasId(state.messagesByThread[t], i)
        /\ TextOf(state, t, i) = <<"c">>
        /\ Len(state.messagesByThread[t]) = 1
        /\ nDispatches >= 2
        /\ ~HasId(state.messagesByThread[u], i)

\* C20: AppendAssistantDelta is not idempotent: applied twice with the same
\* non-empty d, message i ends with d appended twice, and the store differs from
\* the one after a single application.
C20_DeltaReplayDuplicates ==
    \A t \in ThreadIds, i \in ReplayItemIds, d \in ReplayDeltas :
        LET once == threadReducer(state, AppendAgentDeltaAction(t, i, d))
            twice == threadReducer(once, AppendAgentDeltaAction(t, i, d))
        IN  /\ twice # once
            /\ TextOf(twice, t, i) = TextOf(once, t, i) \o d
            /\ HasId(state.messagesByThread[t], i) =>
                    TextOf(twice, t, i) = TextOf(state, t, i) \o d \o d
            /\ ~HasId(state.messagesByThread[t], i) => TextOf(twice, t, i) = d \o d
            /\ Len(twice.messagesByThread[t]) = Len(once.messagesByThread[t])

\* C20 witness: the same delta was dispatched twice and the message holds it twice.
C20_Witness ==
    \E t \in ThreadIds, i \in ItemIds, d \in StoreDeltas :
        /\ HasId(state.messagesByThread[t], i)
        /\ TextOf(state, t, i) = d \o d
        /\ nDispatches = 2

\* ------------------------------------------- event feed adapter (C11..C14)
\* in this step the feed emits an event
EventStep == nEvents' = nEvents + 1

\* C11 (as stated): once the cleanup of an effect run has run, the feed delivers
\* no further event to the callback that run subscribed, whether the cleanup ran
\* before or after the promise of its listen call resolved.
C11_NoDeliveryAfterCleanup ==
    [][EventStep => \A s \in SubIds : subs[s].cleaned => s \notin lastRun'.delivered]_vars

\* C12 (as stated): once the handler set has been replaced, every inbound event
\* is delivered to the callback of some effect run, the old or the new one.
C12_ReplacementLosesNoEvent ==
    [][(EventStep /\ Current > 1) => lastRun'.delivered # {}]_vars

\* events with an unknown or missing method, or with a recognised method whose
\* params or item are absent
MalformedEvents ==
    {"noMethod", "stderr", "deltaNoParams", "completedNoParams", "completedNoItem"}

\* C13 (as stated): for a malformed event the callback returns normally, has
\* called the raw trace handler only, and the store is as it was.
C13_MalformedEventsNeverThrow ==
    [][(EventStep /\ lastRun'.event \in MalformedEvents /\ lastRun'.delivered # {})
            => /\ ~lastRun'.threw
               /\ lastRun'.invoked = <<"onAppServerEvent">>
               /\ state' = state]_vars

\* the handlers a run called: the raw handler first, and only once
RawFirstAndOnce(invoked) ==
    /\ invoked # << >>
    /\ invoked[1] = "onAppServerEvent"
    /\ \A k \in 2..Len(invoked) : invoked[k] # "onAppServerEvent"

\* the callback run on each event of the model calls the raw handler first and once
EveryRunRawFirstAndOnce ==
    \A e \in FeedEvents : RawFirstAndOnce(HandlerNames(ListenCallback(Payload(e)).invoked))

\* C14: in every run of the callback for an inbound event, whatever its method and
\* params, the raw-event handler is called exactly once, and before any classified
\* handler (also when the run throws later).
C14_RawHandlerFirstAndOnce ==
    /\ lastRun.delivered # {} => RawFirstAndOnce(lastRun.invoked)
    /\ EveryRunRawFirstAndOnce

\* C14 witness: the callback has run for an event that a classified handler took.
C14_Witness ==
    /\ lastRun.delivered # {}
    /\ Len(lastRun.invoked) = 2
    /\ lastRun.invoked[2] \in {"onWorkspaceConnected", "onApprovalRequest",
                               "onAgentMessageDelta", "onAgentMessageCompleted"}

\* ------------------------------------------------- debug sink (C15, C16)
AwaitPcs == {"awaitStart", "awaitSend", "awaitRespond"}

\* the records the sink receives in this step
NewEntries == SubSeq(debugEntries', Len(debugEntries) + 1, Len(debugEntries'))

\* C15 (as stated): the step in which an invocation issues an outbound call gives
\* the sink a "client" record as its last record before the call, and the step in
\* which the call settles gives it a "server" or "error" record first.
C15_OutboundCallsBracketed ==
    [][\A c \in CallIds :
            /\ (calls'[c].pc \in AwaitPcs /\ calls'[c].pc # calls[c].pc)
                => /\ NewEntries # << >>
                   /\ NewEntries[Len(NewEntries)].source = "client"
            /\ (calls[c].pc \in AwaitPcs /\ calls'[c].pc # calls[c].pc)
                => /\ NewEntries # << >>
                   /\ NewEntries[1].source \in {"server", "error"}]_vars

\* C16 (as stated): after every step the store of the hook with the debug sink
\* equals the store of the hook without one, given the same events and actions.
C16_SinkHasNoEffectOnStore == state = stateNoSink

\* ------------------------------------------------- approvals list (C21)
\* request ids the reducer is replayed with: those of the model and an unknown one
ReplayRequestIds == RequestIds \cup {9}

\* the positions of the entries of `list` whose request id is not r
KeptPositions(list, r) == {k \in 1..Len(list) : list[k].request_id # r}

\* the j-th smallest position of the set S
NthOf(S, j) == CHOOSE k \in S : Cardinality({m \in S : m <= k}) = j

\* C21: RemoveApproval(r) leaves no entry with request id r, keeps every entry
\* with another request id, unmodified and in the order they had, and changes
\* nothing else in the store.
C21_RemoveApprovalRemovesExactlyR ==
    \A r \in ReplayRequestIds :
        LET before == state.approvals
            after == threadReducer(state, RemoveApprovalAction(r))
            kept == KeptPositions(before, r)
        IN  /\ EntriesWithRequestId(after.approvals, r) = 0
            /\ Len(after.approvals) = Cardinality(kept)
            /\ \A j \in 1..Len(after.approvals) : after.approvals[j] = before[NthOf(kept, j)]
            /\ after = [state EXCEPT !.approvals = after.approvals]

\* C21 witness: the approvals list holds two entries with one request id and,
\* between them, an entry with another request id.
C21_Witness ==
    /\ Len(state.approvals) = 3
    /\ state.approvals[1].request_id = state.approvals[3].request_id
    /\ state.approvals[2].request_id # state.approvals[1].request_id

\* ------------------------------ workspaces and approvals apart (C22, C23)
\* what store s holds for workspace w: its active pointer and its thread list
WorkspaceView(s, w) == <<s.activeThreadIdByWorkspace[w], s.threadsByWorkspace[w]>>

\* the actions, applied to the store s, leave the views of all workspaces but w
LeavesOthers(s, actions, w) ==
    \A v \in Workspaces \ {w} : WorkspaceView(Dispatch(s, actions), v) = WorkspaceView(s, v)

\* the reducer actions of workspace w1, applied to the store s, leave the others
ActionsLeaveOthers(s) ==
    \A w1 \in Workspaces, t \in ThreadIds :
        /\ LeavesOthers(s, <<SetActiveThreadAction(w1, t)>>, w1)
        /\ LeavesOthers(s, <<SetActiveThreadAction(w1, Null)>>, w1)
        /\ LeavesOthers(s, <<EnsureThreadAction(w1, t)>>, w1)
        /\ LeavesOthers(s, StartThreadDispatches(w1, t), w1)

\* C22: SetActiveThread(w1, x), EnsureThread(w1, t) and startThread(w1) never
\* change the active pointer or the thread list of another workspace: neither
\* the reducer actions applied to a reachable store, nor a step of
\* setActiveThreadId or of a thread start of w1.
C22_WorkspacesIndependent ==
    /\ []ActionsLeaveOthers(state)
    /\ [][/\ \A c \in CallIds :
               (calls[c].op = "none" /\ calls'[c].op = "setActiveThreadId") =>
                   \A t \in ThreadIds \cup {Null}, w \in Workspaces \cup {Undefined} :
                       SetActiveThreadId(c, t, w) =>
                           \A v \in Workspaces \ {Coalesce(w, activeWorkspace)} :
                               WorkspaceView(state', v) = WorkspaceView(state, v)
          /\ \A c \in CallIds :
               (calls[c].op = "startThread" /\ calls'[c] # calls[c]) =>
                   \A v \in Workspaces \ {calls[c].workspaceId} :
                       WorkspaceView(state', v) = WorkspaceView(state, v)]_vars

\* C22 witness: a thread start has returned a thread that its workspace lists and
\* selects, while another workspace lists and selects another thread.
C22_Witness ==
    \E c \in CallIds, w1, w2 \in Workspaces :
        /\ w1 # w2
        /\ calls[c].op = "startThread" /\ calls[c].pc = "returned"
        /\ calls[c].result \in ListedIds(state, w1)
        /\ state.activeThreadIdByWorkspace[w1] = calls[c].result
        /\ state.activeThreadIdByWorkspace[w2] \in ListedIds(state, w2) \ {calls[c].result}

\* C23: AddApproval does not de-duplicate: it appends exactly one entry at the
\* end of the approvals list and changes nothing else, so each inbound approval
\* request adds one entry, and two requests with the same request id leave two
\* entries with that id more than before.
C23_AddApprovalAppendsAlways ==
    [][/\ \A w, v \in Workspaces, r \in RequestIds :
            LET once == threadReducer(state, AddApprovalAction(ApprovalRequest(w, r)))
                twice == threadReducer(once, AddApprovalAction(ApprovalRequest(v, r)))
            IN  /\ once = [state EXCEPT !.approvals = Append(@, ApprovalRequest(w, r))]
                /\ twice.approvals =
                        state.approvals \o <<ApprovalRequest(w, r), ApprovalRequest(v, r)>>
                /\ EntriesWithRequestId(twice.approvals, r)
                        = EntriesWithRequestId(state.approvals, r) + 2
       /\ EventStep =>
            /\ Len(state'.approvals) = Len(state.approvals) + 1
            /\ SubSeq(state'.approvals, 1, Len(state.approvals)) = state.approvals]_vars

\* C23 witness: two approval requests with the same request id have arrived and
\* the list holds both entries.
C23_Witness ==
    /\ nEvents = 2
    /\ Len(state.approvals) = 2
    /\ state.approvals[1].request_id = state.approvals[2].request_id

\* ------------------------------ classification of inbound events (C24..C28)
\* The payloads the listen callback is replayed with: every method of the model
\* with every id and every params object built from the values below, where a key
\* is absent, empty or set.
ReplayMethods ==
    { JsUndefined, JsString("codex/connected"), JsString("codex/stderr"),
      ApprovalEventMethod, JsString("requestApproval"), DeltaMethod, CompletedMethod }

ReplayIds == {JsUndefined, JsNumber(7), JsString("7")}

ReplayThreadKeys == {JsUndefined, JsString(""), JsString("t1")}

ReplayItemKeys == {JsUndefined, JsString(""), JsString("i1")}

ReplayTextKeys == {JsUndefined, JsString(<< >>), JsString(<<"a">>)}

ReplayItemTypes == {JsUndefined, JsString("agentMessage"), JsString("commandExecution")}

ReplayItems ==
    {JsUndefined} \cup
        {EventItem(id, text, type) :
            id \in ReplayItemKeys, text \in ReplayTextKeys, type \in ReplayItemTypes}

\* params of delta events, and of item/completed events
ReplayDeltaParams ==
    {EventParams(threadId, itemId, delta, thread_id, item_id, JsUndefined) :
        threadId \in ReplayThreadKeys, thread_id \in ReplayThreadKeys,
        itemId \in ReplayItemKeys, item_id \in ReplayItemKeys, delta \in ReplayTextKeys}

ReplayCompletedParams ==
    {EventParams(threadId, itemId, JsUndefined, thread_id, item_id, item) :
        threadId \in ReplayThreadKeys, thread_id \in ReplayThreadKeys,
        itemId \in {JsUndefined, JsString("i1")}, item_id \in {JsUndefined, JsString("i1")},
        item \in ReplayItems}

ReplayParams == {JsUndefined} \cup ReplayDeltaParams \cup ReplayCompletedParams

ReplayPayloads ==
    {AppServerEvent("w1", method, id, params) :
        method \in ReplayMethods, id \in ReplayIds, params \in ReplayParams}

\* the rules of the classification, as the claims state them
MatchesConnected(payload) == StringOr(payload.message.method) = "codex/connected"

MatchesApproval(payload) ==
    /\ Includes(StringOr(payload.message.method), "requestApproval")
    /\ payload.message.id.tag = "number"

MatchesDelta(payload) == StringOr(payload.message.method) = "item/agentMessage/delta"

MatchesCompleted(payload) == StringOr(payload.message.method) = "item/completed"

\* the handler of the first rule that matches, in the order of the rules
FirstMatch(payload) ==
    IF MatchesConnected(payload) THEN "onWorkspaceConnected"
    ELSE IF MatchesApproval(payload) THEN "onApprovalRequest"
    ELSE IF MatchesDelta(payload) THEN "onAgentMessageDelta"
    ELSE IF MatchesCompleted(payload) THEN "onAgentMessageCompleted"
    ELSE "none"

\* the classified handlers among the handler names `names`, in order
Classified(names) == SelectSeq(names, LAMBDA h : h # "onAppServerEvent")

\* a run that called the handlers `names` followed the first-match rule for payload
FollowsFirstMatch(names, payload) ==
    /\ Len(Classified(names)) <= 1
    /\ Len(Classified(names)) = 1 => Classified(names)[1] = FirstMatch(payload)

\* every payload of the replay is classified by first match
EveryRunFollowsFirstMatch ==
    \A payload \in ReplayPayloads :
        FollowsFirstMatch(HandlerNames(ListenCallback(payload).invoked), payload)

\* C24: classification is first-match: a run of the callback calls at most one of
\* the four classified handlers, and the one it calls is the handler of the first
\* rule, in the order connected, approval request with numeric id, delta, item
\* completed, that the event matches.
C24_ClassificationFirstMatch ==
    /\ lastRun.delivered # {} => FollowsFirstMatch(lastRun.invoked, Payload(lastRun.event))
    /\ EveryRunFollowsFirstMatch

\* C24 witness: the callback has run for an approval request with a numeric id
\* and has called the approval handler.
C24_Witness ==
    /\ lastRun.delivered # {}
    /\ lastRun.event = "approval"
    /\ lastRun.invoked = <<"onAppServerEvent", "onApprovalRequest">>

\* the approvals entry the claim describes for an approval request event
ApprovalEntryOf(payload) ==
    [request_id |-> payload.message.id.val, workspace_id |-> payload.workspace_id,
     method |-> StringOr(payload.message.method),
     params |-> IF payload.message.params.tag = "undefined" THEN << >>
                ELSE payload.message.params.val]

\* a run of the callback dispatches addApproval, once and with the entry of the
\* event, exactly when the event is an approval request with a numeric id
CreatesApprovalEntry(payload) ==
    LET dispatches == RunDispatches(ListenCallback(payload).invoked)
        adding == {k \in 1..Len(dispatches) : dispatches[k].type = "addApproval"}
    IN  IF MatchesApproval(payload)
        THEN /\ Len(dispatches) = 1
             /\ adding = {1}
             /\ dispatches[1].approval.request_id = payload.message.id.val
             /\ dispatches[1].approval = ApprovalEntryOf(payload)
        ELSE adding = {}

EveryRunCreatesApprovalEntry == \A payload \in ReplayPayloads : CreatesApprovalEntry(payload)

\* C25: a run of the callback creates an approvals entry exactly when the
\* event's method contains the approval request marker and message.id is a
\* number; the entry carries the event's workspace id, message.id as request id,
\* the method, and the params or an empty map. An event with the marker and a
\* string or absent id adds no entry.
C25_ApprovalEntryExactlyWhenNumericId ==
    [][/\ EveryRunCreatesApprovalEntry
       /\ EventStep =>
            LET payload == Payload(lastRun'.event)
                runs == Cardinality(lastRun'.delivered)
            IN  state'.approvals =
                    state.approvals \o
                        Repeat(IF MatchesApproval(payload) THEN <<ApprovalEntryOf(payload)>>
                               ELSE << >>, runs)]_vars

\* C25 witness: an approval request with a numeric id has created an entry, and
\* the callback has then run for a request with a string id and has added none.
C25_Witness ==
    /\ lastRun.delivered # {}
    /\ lastRun.event = "approvalStringId"
    /\ Len(state.approvals) = 1
    /\ state.approvals[1] = ApprovalRequest("w1", 7)

\* the thread id, item id and delta of a delta event, "" or << >> when missing
DeltaValues(payload) ==
    LET params == payload.message.params
    IN  IF params.tag # "object"
        THEN [threadId |-> "", itemId |-> "", delta |-> << >>]
        ELSE [threadId |-> StringOr(JsCoalesce(params.val.threadId, params.val.thread_id)),
              itemId |-> StringOr(JsCoalesce(params.val.itemId, params.val.item_id)),
              delta |-> TextOr(params.val.delta)]

\* thread id, item id and delta of the delta event are all non-empty
DeltaComplete(payload) ==
    /\ DeltaValues(payload).threadId # ""
    /\ DeltaValues(payload).itemId # ""
    /\ DeltaValues(payload).delta # << >>

\* C26 (as stated): a delta event is applied only when its thread id, item id and
\* delta are all non-empty; when one of them is missing or empty the callback
\* returns normally without raising and the store is as it was (no thread and no
\* message created or changed).
C26_IncompleteDeltaDroppedSilently ==
    [][(/\ EventStep
        /\ lastRun'.delivered # {}
        /\ MatchesDelta(Payload(lastRun'.event))
        /\ ~DeltaComplete(Payload(lastRun'.event)))
            => /\ ~lastRun'.threw
               /\ state' = state]_vars

\* params.item of an item/completed event is an agent message with a non-empty id
CompletedItemOk(payload) ==
    LET params == payload.message.params
    IN  /\ params.tag = "object"
        /\ params.val.item.tag = "object"
        /\ params.val.item.val.type = JsString("agentMessage")
        /\ StringOr(params.val.item.val.id) # ""

\* the thread id of an item/completed event, "" when missing
CompletedThreadId(payload) ==
    LET params == payload.message.params
    IN  IF params.tag # "object" THEN ""
        ELSE StringOr(JsCoalesce(params.val.threadId, params.val.thread_id))

\* the handler names `names` include onAgentMessageCompleted
CompletedInvoked(names) == \E k \in 1..Len(names) : names[k] = "onAgentMessageCompleted"

\* C27 (as stated): for every item/completed event whose params.item is an agent
\* message with a non-empty id, the callback calls onAgentMessageCompleted; for
\* an item of another type or with an empty id it does not.
C27_CompletedInvokedForAgentMessages ==
    [][(/\ EventStep
        /\ lastRun'.delivered # {}
        /\ MatchesCompleted(Payload(lastRun'.event)))
            => (CompletedInvoked(lastRun'.invoked) <=> CompletedItemOk(Payload(lastRun'.event)))]_vars

\* the call the amended claim describes for an item/completed event
CompletedCallOf(payload) ==
    LET item == payload.message.params.val.item.val
    IN  Invocation("onAgentMessageCompleted",
            [workspaceId |-> payload.workspace_id, threadId |-> CompletedThreadId(payload),
             text |-> IF item.text.tag = "undefined" THEN << >> ELSE item.text.val,
             itemId |-> item.id.val])

\* a run for an item/completed event calls onAgentMessageCompleted, once and with
\* the values of the event, exactly when the thread id is non-empty and the item
\* is an agent message with a non-empty id
CompletedAsAmended(payload) ==
    LET run == ListenCallback(payload)
    IN  IF CompletedItemOk(payload) /\ CompletedThreadId(payload) # ""
        THEN /\ ~run.threw
             /\ Len(run.invoked) = 2
             /\ run.invoked[2] = CompletedCallOf(payload)
        ELSE ~CompletedInvoked(HandlerNames(run.invoked))

EveryCompletedRunAsAmended ==
    \A payload \in ReplayPayloads : MatchesCompleted(payload) => CompletedAsAmended(payload)

\* C27 (amended): onAgentMessageCompleted is called, with the event's workspace
\* id, thread id, item.id and item.text (the empty string when absent), for every
\* item/completed event with a non-empty thread id whose params.item is an agent
\* message with a non-empty id; it is not called when the thread id is missing or
\* empty, the item is of another type, or its id is empty.
C27_CompletedInvokedWithThreadId ==
    /\ EveryCompletedRunAsAmended
    /\ (lastRun.delivered # {} /\ MatchesCompleted(Payload(lastRun.event))) =>
            (CompletedInvoked(lastRun.invoked) <=>
                (/\ CompletedItemOk(Payload(lastRun.event))
                 /\ CompletedThreadId(Payload(lastRun.event)) # ""))

\* C27 witness: the callback has run for a completed agent message without text
\* and the handler was called, so the thread holds the message with empty text.
C27_Witness ==
    /\ lastRun.delivered # {}
    /\ lastRun.event = "completedNoText"
    /\ lastRun.invoked = <<"onAppServerEvent", "onAgentMessageCompleted">>
    /\ HasId(state.messagesByThread["t1"], "i1")
    /\ TextOf(state, "t1", "i1") = << >>

\* what a run of the callback for payload does to the store
Outcome(payload) ==
    LET run == ListenCallback(payload)
    IN  [dispatches |-> RunDispatches(run.invoked), threw |-> run.threw]

\* the event with the given method whose params spell the ids threadId / itemId,
\* and the otherwise identical event that spells them thread_id / item_id
CamelEvent(method, id, thread, itemKey, delta, item) ==
    AppServerEvent("w1", method, id,
        EventParams(thread, itemKey, delta, JsUndefined, JsUndefined, item))

SnakeEvent(method, id, thread, itemKey, delta, item) ==
    AppServerEvent("w1", method, id,
        EventParams(JsUndefined, JsUndefined, delta, thread, itemKey, item))

EverySpellingSameOutcome ==
    \A method \in {DeltaMethod, CompletedMethod}, id \in ReplayIds,
       thread \in ReplayThreadKeys, itemKey \in ReplayItemKeys,
       delta \in ReplayTextKeys, item \in ReplayItems :
        Outcome(SnakeEvent(method, id, thread, itemKey, delta, item))
            = Outcome(CamelEvent(method, id, thread, itemKey, delta, item))

\* the feed event that spells the ids of event e the other way
Respelled(e) ==
    CASE e = "deltaSnake" -> "delta"
      [] e = "completedSnake" -> "completed"
      [] OTHER -> e

\* C28: a delta or item/completed event that spells its ids thread_id / item_id
\* gives the same store transition as the otherwise identical event that spells
\* them threadId / itemId.
C28_SpellingsSameTransition ==
    [][/\ EverySpellingSameOutcome
       /\ (EventStep /\ lastRun'.event \in {"deltaSnake", "completedSnake"}) =>
            state' = Dispatch(state,
                        Repeat(Outcome(Payload(Respelled(lastRun'.event))).dispatches,
                               Cardinality(lastRun'.delivered)))]_vars

\* C28 witness: a delta spelled threadId / itemId and then the same delta spelled
\* thread_id / item_id have reached the callback, and one message holds both.
C28_Witness ==
    /\ lastRun.delivered # {}
    /\ lastRun.event = "deltaSnake"
    /\ HasId(state.messagesByThread["t1"], "i1")
    /\ TextOf(state, "t1", "i1") = <<"a", "a">>
    /\ Len(debugEntries) = 2

\* ---------------------------------------- selection of threads (C29, C30)

\* C29: EnsureThread never overrides a selection: when it appends a thread to
\* workspace w it makes the thread active only if w had no active pointer, and
\* leaves a non-null pointer as it was; when the thread is listed it changes
\* nothing. Hence no inbound event changes a non-null active pointer.
C29_EnsureThreadKeepsSelection ==
    /\ [](\A w \in Workspaces, t \in ThreadIds :
            LET before == state.activeThreadIdByWorkspace[w]
                after == threadReducer(state, EnsureThreadAction(w, t))
            IN  /\ before # Null => after.activeThreadIdByWorkspace[w] = before
                /\ (before = Null /\ t \notin ListedIds(state, w)) =>
                        after.activeThreadIdByWorkspace[w] = t
                /\ t \in ListedIds(state, w) => after = state
                /\ t \notin ListedIds(state, w) =>
                        after.threadsByWorkspace[w][Len(after.threadsByWorkspace[w])].id = t)
    /\ [][EventStep =>
            \A w \in Workspaces :
                state.activeThreadIdByWorkspace[w] # Null =>
                    state'.activeThreadIdByWorkspace[w] = state.activeThreadIdByWorkspace[w]]_vars

\* C29 witness: an inbound event has added a thread to a workspace whose active
\* pointer names another, listed thread.
C29_Witness ==
    \E w \in Workspaces, t, u \in ThreadIds :
        /\ t # u
        /\ nEvents >= 1
        /\ state.threadsByWorkspace[w] # << >>
        /\ state.threadsByWorkspace[w][Len(state.threadsByWorkspace[w])].id = u
        /\ state.messagesByThread[u] # << >>
        /\ t \in ListedIds(state, w)
        /\ state.activeThreadIdByWorkspace[w] = t


\* C30: when the thread/start call for workspace w resolves with thread id t,
\* then as startThread returns t is in w's thread list, w's active pointer is t
\* whatever it was before, and the value returned is t.
C30_StartThreadListsSelectsReturns ==
    [][\A c \in CallIds :
          (/\ calls[c].op = "startThread"
           /\ calls[c].pc = "awaitStart"
           /\ calls'[c].pc = "returned"
           /\ calls'[c].result # Null) =>
                LET w == calls[c].workspaceId
                    t == calls'[c].result
                IN  /\ t \in ThreadIds
                    /\ t \in ListedIds(state', w)
                    /\ state'.activeThreadIdByWorkspace[w] = t
                    /\ \A v \in Workspaces \ {w} :
                            state'.activeThreadIdByWorkspace[v] =
                                state.activeThreadIdByWorkspace[v]]_vars

\* C30 witness: a thread/start call has returned a thread that is the active one
\* of its workspace and was appended after another thread the workspace had.
C30_Witness ==
    \E c \in CallIds, w \in Workspaces :
        LET t == calls[c].result
        IN  /\ calls[c].op = "startThread"
            /\ calls[c].pc = "returned"
            /\ t # Null
            /\ Len(state.threadsByWorkspace[w]) >= 2
            /\ state.threadsByWorkspace[w][Len(state.threadsByWorkspace[w])].id = t
            /\ state.activeThreadIdByWorkspace[w] = t


\* ------------------------------------------------- thread lists (C31, C34)
\* list `before` is the beginning of list `after`, record by record
IsPrefix(before, after) ==
    /\ Len(before) <= Len(after)
    /\ \A k \in 1..Len(before) : after[k] = before[k]

\* C31: threads are never deleted or altered: a thread of a workspace's list is,
\* after any action, in that list at the same position with the same id and name.
C31_ThreadsNeverDeletedOrAltered ==
    [][\A w \in Workspaces :
          IsPrefix(state.threadsByWorkspace[w], state'.threadsByWorkspace[w])]_vars

\* C31 witness: a workspace has listed two threads, and a later action has set
\* its active pointer to null.
C31_Witness ==
    \E w \in Workspaces :
        /\ Len(state.threadsByWorkspace[w]) = 2
        /\ state.activeThreadIdByWorkspace[w] = Null
        /\ nDispatches = 3


\* ------------------------------------------------- purity of the reducer (C32)
\* applying action a leaves the store it is applied to as it was, and a second
\* application to that same store object gives the result of the first
AppliesPurely(a) ==
    /\ InputStateAfter(state, a) = state
    /\ threadReducer(InputStateAfter(state, a), a) = threadReducer(state, a)

\* C32: the transition function is pure: applying any action to a state leaves
\* that input state and the message records it refers to unmodified, so applying
\* the same action twice to the same input state gives equal results.
C32_ReducerIsPure ==
    /\ \A w \in Workspaces, t \in ThreadIds \cup {Null} :
            AppliesPurely(SetActiveThreadAction(w, t))
    /\ \A w \in Workspaces, t \in ThreadIds : AppliesPurely(EnsureThreadAction(w, t))
    /\ \A t \in ThreadIds, i \in ItemIds, d \in StoreDeltas :
            AppliesPurely(AppendAgentDeltaAction(t, i, d))
    /\ \A t \in ThreadIds, i \in ItemIds, x \in StoreTexts :
            AppliesPurely(CompleteAgentMessageAction(t, i, x))
    /\ \A w \in Workspaces, r \in RequestIds :
            AppliesPurely(AddApprovalAction(ApprovalRequest(w, r)))
    /\ \A r \in RequestIds : AppliesPurely(RemoveApprovalAction(r))


\* ------------------------------------------- one listener on the feed (C33)
\* C33 (as stated): at most one listener of the adapter is registered on the
\* feed at any time, whatever the order of cleanups, re-subscriptions and
\* resolutions of earlier listen calls, and an inbound event is applied to the
\* store at most once: a delta is never appended twice.
C33_EachEventAppliedAtMostOnce ==
    [][/\ Cardinality({s \in SubIds : Live(s)}) <= 1
       /\ EventStep =>
            \/ state' = state
            \/ state' = Dispatch(state,
                            RunDispatches(ListenCallback(Payload(lastRun'.event)).invoked))]_vars


\* C34: in every reachable state the k-th thread of each workspace's list is
\* named "Agent k", so the names of a workspace's threads are pairwise distinct.
C34_ThreadsNamedByPosition ==
    \A w \in Workspaces :
        LET list == state.threadsByWorkspace[w]
        IN  /\ \A k \in 1..Len(list) : list[k].name = "Agent " \o ToString(k)
            /\ \A j, k \in 1..Len(list) : j # k => list[j].name # list[k].name

\* C34 witness: one workspace lists two threads, the second named "Agent 2", and
\* the other workspace lists one, named "Agent 1".
C34_Witness ==
    \E w, v \in Workspaces :
        /\ w # v
        /\ Len(state.threadsByWorkspace[w]) = 2
        /\ state.threadsByWorkspace[w][2].name = "Agent 2"
        /\ Len(state.threadsByWorkspace[v]) = 1
        /\ state.threadsByWorkspace[v][1].name = "Agent 1"


\* ------------------------------------------- sending user messages (C35, C36)
\* C35: when a thread is selected only by null or by a thread the workspace
\* lists, every thread id that holds a message is in some workspace's thread
\* list: neither inbound events nor sendUserMessage store a message under an
\* unlisted thread.
C35_MessagesOnlyUnderListedThreads ==
    \A t \in ThreadIds :
        state.messagesByThread[t] # << >> => \E w \in Workspaces : t \in ListedIds(state, w)

\* C35 witness: sendUserMessage has put a user message into the active thread,
\* which an inbound event had created and which holds an assistant message.
C35_Witness ==
    \E c \in CallIds :
        /\ calls[c].op = "sendUserMessage"
        /\ calls[c].pc = "awaitSend"
        /\ calls[c].dispatched = <<"addUserMessage">>
        /\ \E j, k \in 1..Len(state.messagesByThread[calls[c].threadId]) :
                /\ state.messagesByThread[calls[c].threadId][j].role = "assistant"
                /\ state.messagesByThread[calls[c].threadId][k].role = "user"


\* the user message of call c is the last of thread t, and no other thread's
\* messages have changed
UserMessageAddedTo(c, t) ==
    /\ state'.messagesByThread[t] =
            Append(state.messagesByThread[t],
                   [id |-> UserMessageId(0), text |-> Trim(calls[c].text), role |-> "user"])
    /\ \A u \in ThreadIds \ {t} : state'.messagesByThread[u] = state.messagesByThread[u]

\* C36: sendUserMessage with no active thread starts a thread and sends into it:
\* the user message is appended to exactly the thread whose id the start call
\* returned, and the outbound send names that thread; when the start call throws
\* or resolves without a thread id, no user message is added and no send is
\* issued. With blank text or no active workspace it issues no outbound call and
\* changes nothing.
C36_SendStartsThenSendsIntoIt ==
    [][\A c \in CallIds :
          /\ (calls[c].op = "sendUserMessage" /\ calls[c].pc = "awaitStart") =>
                /\ \A id \in ResponseIds :
                      SendStartResolve(c, id, 0) =>
                        IF id # ""
                        THEN /\ calls'[c].pc = "awaitSend"
                             /\ calls'[c].threadId = id
                             /\ calls'[c].workspaceId = calls[c].workspaceId
                             /\ calls'[c].text = Trim(calls[c].text)
                             /\ id \in ListedIds(state', calls[c].workspaceId)
                             /\ UserMessageAddedTo(c, id)
                        ELSE /\ calls'[c].pc = "returned"
                             /\ state' = state
                /\ SendStartReject(c) =>
                        /\ calls'[c].pc = "threw"
                        /\ state' = state
          /\ (calls[c].pc = "idle" /\ calls'[c].op = "sendUserMessage") =>
                \A text \in UserTexts :
                    (SendUserMessage(c, text, 0)
                        /\ (activeWorkspace = Null \/ Trim(text) = << >>)) =>
                            /\ calls'[c].pc = "returned"
                            /\ state' = state
                            /\ debugEntries' = debugEntries]_vars

\* C36 witness: a sendUserMessage with blank text has returned without a
\* dispatch, and another has started a thread and awaits the send into it, its
\* message being the last of that thread.
C36_Witness ==
    \E b, c \in CallIds :
        /\ calls[b].op = "sendUserMessage"
        /\ calls[b].pc = "returned"
        /\ calls[b].dispatched = << >>
        /\ calls[c].op = "sendUserMessage"
        /\ calls[c].pc = "awaitSend"
        /\ calls[c].dispatched = <<"ensureThread", "setActiveThreadId", "addUserMessage">>
        /\ state.messagesByThread[calls[c].threadId] # << >>
        /\ state.messagesByThread[calls[c].threadId]
                [Len(state.messagesByThread[calls[c].threadId])].text = <<"h">>


\* ------------------------------------------------ concurrent starts (C37)
\* call c is a thread start suspended on its outbound call
StartInFlight(c) == calls[c].op = "startThread" /\ calls[c].pc = "awaitStart"

\* C37: thread starts are not serialised: each response is processed as it
\* comes, whatever other starts are in flight or have returned. The response
\* with id t for workspace w leaves the threads w listed where they were, puts t
\* after them unless w lists it, makes t the active thread of w, and leaves the
\* other starts in flight; so two concurrent starts with distinct ids both end
\* up in w's list in the order of their responses, the later one active.
C37_ConcurrentStartsBothTakeEffect ==
    [][\A c \in CallIds :
          (StartInFlight(c) /\ calls'[c].pc = "returned" /\ calls'[c].result # Null) =>
              LET w == calls[c].workspaceId
                  t == calls'[c].result
                  list == state.threadsByWorkspace[w]
              IN  /\ state'.threadsByWorkspace[w] =
                        IF t \in ListedIds(state, w) THEN list
                        ELSE Append(list, [id |-> t, name |-> ThreadName(Len(list) + 1)])
                  /\ state'.activeThreadIdByWorkspace[w] = t
                  /\ \A b \in CallIds \ {c} : calls'[b] = calls[b]]_vars

\* C37 witness: two starts for one workspace were in flight together (two client
\* records, then two responses, and no inbound event), their ids differ, and the
\* workspace lists both threads, the second one active.
C37_Witness ==
    \E w \in Workspaces :
        /\ debugEntries =
                <<ThreadStartClient, ThreadStartClient, ThreadStartServer, ThreadStartServer>>
        /\ nEvents = 0
        /\ calls[1].pc = "returned" /\ calls[2].pc = "returned"
        /\ calls[1].result # Null /\ calls[2].result # Null
        /\ calls[1].result # calls[2].result
        /\ Len(state.threadsByWorkspace[w]) = 2
        /\ {state.threadsByWorkspace[w][1].id, state.threadsByWorkspace[w][2].id}
                = {calls[1].result, calls[2].result}
        /\ state.activeThreadIdByWorkspace[w] = state.threadsByWorkspace[w][2].id

\* ----------------------------------------------- post-update notice (C38)
\* C38: once dismissPostUpdateNotice has been called while the release-notes
\* fetch was pending, the post-update notice is null in every later state,
\* whether the fetch then resolves or rejects.
C38_DismissedNoticeStaysClosed ==
    dismissedWhileLoading => postUpdateNotice = Null

\* C38 witness: the notice was dismissed while loading, the fetch has settled
\* since, and the notice is closed
C38_Witness ==
    /\ dismissedWhileLoading
    /\ \E r \in EffectRunIds : effectPc[r] = "returned" /\ fetchGeneration[r] > 0
    /\ ~FetchPending
    /\ postUpdateNotice = Null

\* ------------------------------------------------ the 'latest' toast (C39)
\* C39: the 'latest' toast timer only ever moves the stage from "latest" to
\* "idle", whatever the interleaving of checkForUpdates, startUpdate and dismiss
\* calls, and the stage is never "idle" while a found update is held for
\* installation.
C39_TimerOnlyClosesLatestToast ==
    /\ [](stage = "idle" => updateRef = {})
    /\ [][\A id \in CheckIds : LatestTimerFires(id) => stage = "latest"]_vars

====
